---- MODULE Spec2Model ----
(***************************************************************************)
(* Room game-session engine of the card game (src/app.py): the phase       *)
(* state machine, the hidden lock / simultaneous reveal protocol, the      *)
(* lock timer, the bot tasks and the scoring rules of one room.            *)
(*                                                                         *)
(* Execution is one asyncio event loop.  A step of the model is the code   *)
(* a task runs between two suspension points.  Suspension points are the   *)
(* asyncio.sleep calls and every `await broadcast_state(room)` that is     *)
(* followed by more code of the same coroutine (a send may suspend).       *)
(* A broadcast that ends a handler is folded into the step before it.      *)
(*                                                                         *)
(* Python None is 0 for ids and handles, NoCard for cards and the empty    *)
(* sequence for optional records (<<r>> is "some r").                      *)
(***************************************************************************)
EXTENDS Integers, Sequences, FiniteSets, TLC

\* ------------------------------------------------------------------ bounds
MaxHumans == 2         \* connections that may join the room
MaxTarget == 2         \* largest table size a room is created with
MaxPendingStarts == 2  \* start_game tasks created and not yet run
MaxBotBcast == 2       \* bot tasks suspended in their broadcast
MaxFnRound == 11       \* largest round number of the reveal inputs
MaxInFlight == 1       \* messages received and not yet answered
MaxDealTarget == 3     \* largest table size of the deal inputs
MaxLobbyConns == 3     \* connections of the lobby that is watched filling up

\* The card space, reduced to two suits and two ranks (the program has the
\* suits S, H, D, C and the ranks 2..14).
SUITS == {"S", "H"}
RANKS == {2, 3}
Cards == SUITS \X RANKS
NoCard == <<"-", 0>>
\* card = {"id": "X", "suit": "S", "rank": 2, ...}: fallback of a missing play
SentinelCard == <<"X", 2>>

HumanIds == 1..MaxHumans
LobbyConns == 1..MaxLobbyConns
\* the ids of humans are those of their connections, the bots' follow them
MaxConns == IF MaxLobbyConns > MaxHumans THEN MaxLobbyConns ELSE MaxHumans
BotIds ==
    (MaxConns + 1)..(MaxConns + (IF MaxTarget > MaxDealTarget THEN MaxTarget
                                 ELSE MaxDealTarget))
PIDs == (1..MaxConns) \cup BotIds
TimerIds == {1, 2}
TargetSizes == 2..MaxTarget

VARIABLES
    \* Room fields
    target_size, host_id, phase, round, rounds_played, players,
    pending_plays, last_reveal, history, starting, advancing,
    aftershock_next, timer_task, lock_deadline_ts, pending_award,
    \* Player fields, by player id
    score, hand, locked, win_streak,
    \* tasks of the event loop
    conn,            \* ws_room handler of each connection: its position
    botSleep,        \* bot_lock_after_delay tasks still in their sleep, per bot
    botBcast,        \* bot_lock_after_delay tasks suspended in their broadcast
    tpc, tcancel,    \* timer_countdown tasks: position, cancellation requested
    startPending,    \* start_game tasks created, not yet run: the connection
                     \* whose handler created each, oldest first
    startSleep,      \* start_game tasks in their 0.12 s sleep
    restartPending,  \* restart_same_lobby task created, not yet run: the
                     \* connection whose handler created it (0: none)
    reveals,         \* frames of do_reveal_and_advance: host task and locals
    \* the room's connections
    sockets,         \* room.sockets: the connections broadcast_state sends to
    bcast            \* frame of a broadcast_state followed send by send (<<>>:
                     \* none): ws list still to visit, dead list, payloads sent

roomVars == <<target_size, host_id, phase, round, rounds_played, players,
              pending_plays, last_reveal, history, starting, advancing,
              aftershock_next, timer_task, lock_deadline_ts, pending_award>>
playerVars == <<score, hand, locked, win_streak>>
taskVars == <<conn, botSleep, botBcast, tpc, tcancel, startPending, startSleep,
              restartPending, reveals>>
netVars == <<sockets, bcast>>
vars == <<roomVars, playerVars, taskVars, netVars>>

\* ----------------------------------------------------------------- helpers
Range(s) == {s[i] : i \in 1..Len(s)}

Min(S) == CHOOSE x \in S : \A y \in S : x <= y

Max(S) == CHOOSE x \in S : \A y \in S : x >= y

\* all orders random.shuffle can leave a list in
Perms(s) ==
    {q \in [1..Len(s) -> Range(s)] : \A i, j \in 1..Len(s) : i # j => q[i] # q[j]}

rank_value(card) == card[2]

is_bot(p) == p \in BotIds

find_player(pl, pid) == IF pid \in Range(pl) THEN pid ELSE 0

human_players(pl) == SelectSeq(pl, LAMBDA p : ~is_bot(p))

bot_players(pl) == SelectSeq(pl, LAMBDA p : is_bot(p))

RECURSIVE ensure_bot_fill(_, _)
ensure_bot_fill(pl, size) ==
    LET target == Max({2, Min({6, size})})
    IN  IF Len(pl) >= target THEN pl
        ELSE ensure_bot_fill(Append(pl, Min(BotIds \ Range(pl))), size)

clear_bots(pl) == human_players(pl)

all_locked(pl, lk) == pl # <<>> /\ \A p \in Range(pl) : lk[p]

is_joker_round(r) == r > 0 /\ r % 5 = 0

\* round_point_value whose streak bonus starts one win later
round_point_value_late_streak(aftershock, streak) ==
    IF aftershock THEN 2
    ELSE IF streak >= 3 THEN 2
    ELSE 1

\* round_point_value that charges the winner of a plain round
round_point_value_charged(aftershock, streak) ==
    IF aftershock THEN 2
    ELSE IF streak >= 2 THEN 2
    ELSE 0 - 1

round_point_value(aftershock, streak) ==
    IF aftershock THEN 2
    ELSE IF streak >= 2 THEN 2
    ELSE 1

\* deal_equally cutting hands that may overlap
DealsOverlapping(pl) ==
    LET n == Len(pl)
        each == Cardinality(Cards) \div n
    IN  {h \in [Range(pl) -> SUBSET Cards] :
            \A p \in Range(pl) : Cardinality(h[p]) = each}

\* deal_equally handing out the whole deck, the first players of the list
\* getting one card more when the deck does not divide evenly
DealsWholeDeck(pl) ==
    LET n == Len(pl)
        each == Cardinality(Cards) \div n
        more == Cardinality(Cards) % n
    IN  {h \in [Range(pl) -> SUBSET Cards] :
            /\ \A i \in 1..n :
                  Cardinality(h[pl[i]]) = IF i <= more THEN each + 1 ELSE each
            /\ \A p, q \in Range(pl) : p # q => h[p] \cap h[q] = {}}

\* new_deck + deal_equally: the hands a shuffled deck can be cut into.  Each
\* seated player gets len(deck) // n cards, the rest of the deck is not dealt.
Deals(pl) ==
    LET n == Len(pl)
        each == Cardinality(Cards) \div n
    IN  {h \in [Range(pl) -> SUBSET Cards] :
            /\ \A p \in Range(pl) : Cardinality(h[p]) = each
            /\ \A p, q \in Range(pl) : p # q => h[p] \cap h[q] = {}}

\* ---------------------------------------------------------------- bot engine
\* floor(10^6 * (p/100)^1.2) for p = 0..100: the float pow of bot_pick_index,
\* tabulated; int(skew * (n - 1)) equals (SkewE6[p+1] * (n-1)) \div 10^6 for
\* every n up to 59.
SkewE6 ==
    <<0, 3981, 9146, 14878, 21012, 27464, 34180, 41126, 48273, 55602, 63095,
      70741, 78526, 86443, 94482, 102638, 110903, 119272, 127740, 136302,
      144955, 153696, 162520, 171424, 180407, 189464, 198594, 207795, 217064,
      226400, 235800, 245264, 254788, 264372, 274015, 283714, 293469, 303278,
      313141, 323055, 333021, 343036, 353101, 363213, 373373, 383579, 393830,
      404126, 414466, 424849, 435275, 445742, 456251, 466800, 477389, 488017,
      498684, 509389, 520132, 530911, 541728, 552580, 563468, 574392, 585350,
      596342, 607369, 618428, 629521, 640647, 651804, 662994, 674215, 685468,
      696751, 708065, 719409, 730783, 742187, 753620, 765081, 776572, 788091,
      799638, 811213, 822815, 834445, 846102, 857786, 869496, 881233, 892996,
      904785, 916599, 928439, 940304, 952194, 964108, 976048, 988012, 1000000>>

\* pressure is passed in hundredths
bot_pick_index(n, pressure) ==
    IF n <= 1 THEN 0
    ELSE LET p == Max({0, Min({100, pressure})})
             idx == (SkewE6[p + 1] * (n - 1)) \div 1000000
         IN  Max({0, Min({n - 1, idx})})

\* in hundredths
estimate_tie_risk(rank, n_players) ==
    LET mid == 8
        dist == IF rank >= mid THEN rank - mid ELSE mid - rank
        base == 10 + 5 * Max({0, n_players - 2})
        adjust == 0 - 2 * Min({dist, 6})
    IN  Max({2, Min({60, base + adjust})})

\* rank of hand_sorted[idx] (idx counts from 0)
SortedRankAt(h, idx) ==
    CHOOSE r \in {c[2] : c \in h} :
        /\ Cardinality({c \in h : c[2] < r}) <= idx
        /\ idx < Cardinality({c \in h : c[2] <= r})

BotPressure(trailing_by, rounds_left) ==
    LET p0 == IF trailing_by >= 3 THEN 92
              ELSE IF trailing_by = 2 THEN 82
              ELSE IF trailing_by = 1 THEN 66
              ELSE IF trailing_by = 0 THEN 46
              ELSE 30
        p1 == IF rounds_left <= 4 THEN Min({96, p0 + 18}) ELSE p0
    IN  IF rounds_left <= 2 THEN Min({98, p1 + 12}) ELSE p1

\* The cards bot_choose can pick: the rank is the one at the computed index of
\* the rank-sorted hand; among cards of that rank the order the shuffle left
\* them in decides, so any of them can be the one.
BotChoices(b) ==
    LET joker == is_joker_round(round)
        n == Cardinality(hand[b])
        leader == IF players # <<>> THEN Max({score[p] : p \in Range(players)}) ELSE 0
        trailing_by == leader - score[b]
        rounds_left == n
        pressure == BotPressure(trailing_by, rounds_left)
        pressure_low == IF trailing_by >= 1 THEN 10 ELSE 22
        idx0 == IF joker THEN bot_pick_index(n, pressure_low)
                ELSE bot_pick_index(n, pressure)
        risk == estimate_tie_risk(SortedRankAt(hand[b], idx0), Len(players))
        idx == IF ~joker /\ n >= 3 /\ risk > 28
               THEN IF trailing_by >= 1 THEN Min({n - 1, idx0 + 1})
                    ELSE Max({0, idx0 - 1})
               ELSE idx0
    IN  {c \in hand[b] : c[2] = SortedRankAt(hand[b], idx)}

\* ------------------------------------------------------- reveal computation
\* RevealPlays that finds no pending play for the player revealed last
RevealPlaysLastMissing(order) ==
    [i \in 1..Len(order) |->
        [playerId |-> order[i],
         card |-> IF pending_plays[order[i]] = NoCard \/ i = Len(order)
                  THEN SentinelCard
                  ELSE pending_plays[order[i]]]]

\* plays of do_reveal_and_advance, in reveal order
\* RevealPlays that also reveals the pending plays left behind by players
\* who are no longer seated
RevealPlaysAllPending(order) ==
    LET left == SelectSeq([i \in 1..Cardinality(PIDs) |-> i],
                          LAMBDA p : p \notin Range(order) /\ pending_plays[p] # NoCard)
        all == order \o left
    IN  [i \in 1..Len(all) |->
            [playerId |-> all[i],
             card |-> IF pending_plays[all[i]] = NoCard THEN SentinelCard
                      ELSE pending_plays[all[i]]]]

RevealPlays(order) ==
    [i \in 1..Len(order) |->
        [playerId |-> order[i],
         card |-> IF pending_plays[order[i]] = NoCard THEN SentinelCard
                  ELSE pending_plays[order[i]]]]

\* BestVal with the joker inversion left out
BestValAlwaysMax(plays, joker) ==
    IF plays # <<>>
    THEN Max({rank_value(plays[i].card) : i \in 1..Len(plays)})
    ELSE 0

BestVal(plays, joker) ==
    IF plays # <<>>
    THEN IF joker THEN Min({rank_value(plays[i].card) : i \in 1..Len(plays)})
         ELSE Max({rank_value(plays[i].card) : i \in 1..Len(plays)})
    ELSE 0

\* TopIds that stops at the first player with the best value
TopIdsFirstOnly(plays, best_val) ==
    LET top == SelectSeq(plays, LAMBDA x : rank_value(x.card) = best_val)
    IN  [i \in 1..Min({1, Len(top)}) |-> top[i].playerId]

TopIds(plays, best_val) ==
    LET top == SelectSeq(plays, LAMBDA x : rank_value(x.card) = best_val)
    IN  [i \in 1..Len(top) |-> top[i].playerId]

\* the locals do_reveal_and_advance holds across its pacing sleep
RevealFrame(host, order) ==
    LET plays == RevealPlays(order)
        joker == is_joker_round(round)
        best_val == BestVal(plays, joker)
        top_ids == TopIds(plays, best_val)
        explosion == Len(top_ids) > 1
        won == ~explosion /\ top_ids # <<>>
        winner_id == IF won THEN top_ids[1] ELSE 0
        w == IF won THEN find_player(players, winner_id) ELSE 0
        points == IF w # 0 THEN round_point_value(aftershock_next, win_streak[w]) ELSE 0
        winner_card == IF won
                       THEN (CHOOSE x \in Range(plays) : x.playerId = winner_id).card
                       ELSE NoCard
    IN  [host |-> host, pc |-> "pacing", order |-> order, plays |-> plays,
         joker |-> joker, best_val |-> best_val, top_ids |-> top_ids,
         explosion |-> explosion, winner_id |-> winner_id,
         winner_card |-> winner_card, points |-> points]

LastReveal(f) ==
    [round |-> round, joker |-> f.joker, aftershockNext |-> aftershock_next,
     order |-> f.order, plays |-> f.plays, winnerId |-> f.winner_id,
     explosion |-> f.explosion, topIds |-> f.top_ids, topRank |-> f.best_val,
     winnerCard |-> f.winner_card, points |-> f.points]

PendingAward(f) ==
    [winnerId |-> f.winner_id, explosion |-> f.explosion, points |-> f.points,
     joker |-> f.joker]

HistoryEntry(f) ==
    [round |-> round, winnerId |-> f.winner_id, explosion |-> f.explosion,
     topRank |-> f.best_val, winnerCard |-> f.winner_card, points |-> f.points,
     joker |-> f.joker]

\* HistoryInsert that appends the entry instead of putting it first
HistoryInsertLast(h, e) ==
    LET all == h \o <<e>>
    IN  IF Len(all) > 10 THEN SubSeq(all, 1, 10) ELSE all

\* HistoryInsert without the cut to ten entries
HistoryInsertUncut(h, e) == <<e>> \o h

\* room.history.insert(0, entry); room.history = room.history[:10]
HistoryInsert(h, e) ==
    LET all == <<e>> \o h
    IN  IF Len(all) > 10 THEN SubSeq(all, 1, 10) ELSE all

\* ------------------------------------------------------------ state fan-out
\* room_public_players that lists each player's cards
room_public_players_with_hands(pl, hd) ==
    [i \in 1..Len(pl) |->
        [id |-> pl[i], isBot |-> is_bot(pl[i]), score |-> score[pl[i]],
         locked |-> locked[pl[i]], cardsLeft |-> hd[pl[i]],
         winStreak |-> win_streak[pl[i]]]]

\* room_public_players, over the hands hd
room_public_players(pl, hd) ==
    [i \in 1..Len(pl) |->
        [id |-> pl[i], isBot |-> is_bot(pl[i]), score |-> score[pl[i]],
         locked |-> locked[pl[i]], cardsLeft |-> Cardinality(hd[pl[i]]),
         winStreak |-> win_streak[pl[i]]]]

\* The payload broadcast_state sends to the socket bound to player id pid (0:
\* a socket that has not joined), in a room whose hands are hd and whose
\* pending plays are pp.  Names and the room code are left out.
broadcast_state(pid, hd, pp) ==
    LET you == IF pid # 0 THEN find_player(players, pid) ELSE 0
    IN  [phase |-> phase,
         round |-> round,
         roundsPlayed |-> rounds_played,
         targetSize |-> target_size,
         hostId |-> host_id,
         players |-> room_public_players(players, hd),
         lastReveal |-> IF phase \in {"reveal", "finished"} THEN last_reveal ELSE <<>>,
         history |-> history,
         you |-> IF you # 0
                 THEN [id |-> you, score |-> score[you], isBot |-> is_bot(you),
                       locked |-> locked[you], hand |-> hd[you],
                       winStreak |-> win_streak[you]]
                 ELSE [id |-> 0, score |-> 0, isBot |-> FALSE, locked |-> FALSE,
                       hand |-> {}, winStreak |-> 0],
         jokerRound |-> is_joker_round(round),
         aftershockNext |-> aftershock_next,
         lockDeadlineTs |-> lock_deadline_ts,
         pendingAward |-> pending_award]

\* -------------------------------------------------------------------- state
Init ==
    /\ target_size \in TargetSizes
    /\ host_id = 0
    /\ phase = "lobby"
    /\ round = 0
    /\ rounds_played = 0
    /\ players = <<>>
    /\ pending_plays = [p \in PIDs |-> NoCard]
    /\ last_reveal = <<>>
    /\ history = <<>>
    /\ starting = FALSE
    /\ advancing = FALSE
    /\ aftershock_next = FALSE
    /\ timer_task = 0
    /\ lock_deadline_ts = 0
    /\ pending_award = <<>>
    /\ score = [p \in PIDs |-> 0]
    /\ hand = [p \in PIDs |-> {}]
    /\ locked = [p \in PIDs |-> FALSE]
    /\ win_streak = [p \in PIDs |-> 0]
    /\ conn = [c \in HumanIds |-> "open"]
    /\ botSleep = [b \in BotIds |-> 0]
    /\ botBcast = 0
    /\ tpc = [t \in TimerIds |-> "free"]
    /\ tcancel = [t \in TimerIds |-> FALSE]
    /\ startPending = <<>>
    /\ startSleep = 0
    /\ restartPending = 0
    /\ reveals = {}
    /\ sockets = HumanIds
    /\ bcast = <<>>

\* ------------------------------------------------------------- scheduling
\* A task made by asyncio.create_task takes its first step, and a cancelled
\* task gets its CancelledError, in the next iteration of the event loop, ahead
\* of every sleep that ends in that iteration; every sleep of the program lasts
\* at least 0.12 s.  So no sleep ends while such a step is still due.
LoopQuiet ==
    /\ \A t \in TimerIds : ~tcancel[t] /\ tpc[t] # "created"
    /\ startPending = <<>>
    /\ restartPending = 0

\* Bot delays are at most 2.5 s and are started before the reveal begins or
\* when it ends; the reveal pacing sleep is at least 5.35 s.  So every bot
\* delay running when a reveal starts has ended before the pacing sleep ends.
BotDelaysOver == \A b \in BotIds : botSleep[b] = 0

\* cancel_timer that leaves the deadline set
cancel_timer_keeps_deadline ==
    [timer_task |-> 0,
     lock_deadline_ts |-> lock_deadline_ts,
     tcancel |-> IF timer_task # 0 /\ tpc[timer_task] # "free"
                 THEN [tcancel EXCEPT ![timer_task] = TRUE]
                 ELSE tcancel]

\* cancel_timer that drops the handle without cancelling the task
cancel_timer_no_cancel ==
    [timer_task |-> 0, lock_deadline_ts |-> 0, tcancel |-> tcancel]

\* cancel_timer: what it leaves of the handle, the deadline and the
\* cancellation requests (a task that is not done is cancelled)
cancel_timer ==
    [timer_task |-> 0,
     lock_deadline_ts |-> 0,
     tcancel |-> IF timer_task # 0 /\ tpc[timer_task] # "free"
                 THEN [tcancel EXCEPT ![timer_task] = TRUE]
                 ELSE tcancel]

\* schedule_bots that creates no task
schedule_bots_none(pl) == botSleep

\* schedule_bots: one more sleeping bot_lock_after_delay task per seated bot
schedule_bots(pl) ==
    [b \in BotIds |-> IF b \in Range(pl) THEN botSleep[b] + 1 ELSE botSleep[b]]

\* ------------------------------------------------------------ reveal engine
\* the guards of maybe_start_reveal without the `advancing` check
CanStartRevealUnguarded ==
    /\ phase = "lock_in"
    /\ all_locked(players, locked)

\* the guards of maybe_start_reveal
CanStartReveal ==
    /\ phase = "lock_in"
    /\ all_locked(players, locked)
    /\ ~advancing

\* the scores once the outcome is published, with the award already applied
ScoreAtPublishAwarded(f) ==
    IF f.winner_id # 0 THEN [score EXCEPT ![f.winner_id] = @ + f.points] ELSE score

\* the scores once the outcome is published: do_reveal_and_advance computes
\* the outcome but does not touch a score before its pacing sleep
ScoreAtPublish(f) == score

\* maybe_start_reveal past its guards, and do_reveal_and_advance up to its
\* first suspension (the broadcast, then the pacing sleep).  The caller sets
\* the position of the host task.
BeginReveal(host) ==
    \E order \in Perms(players) :
        \E f \in {RevealFrame(host, order)} :
            /\ advancing' = TRUE
            /\ tcancel' = cancel_timer.tcancel
            /\ timer_task' = cancel_timer.timer_task
            /\ lock_deadline_ts' = cancel_timer.lock_deadline_ts
            /\ phase' = "reveal"
            /\ last_reveal' = <<LastReveal(f)>>
            /\ pending_award' = <<PendingAward(f)>>
            /\ reveals' = reveals \cup {f}
            /\ score' = ScoreAtPublish(f)
            /\ UNCHANGED <<target_size, host_id, round, rounds_played, players,
                           pending_plays, history, starting, aftershock_next,
                           hand, locked, win_streak, botSleep, startPending,
                           startSleep, restartPending>>

\* the streaks after a win that leaves the other players' streaks alone
StreaksAfterWinNoReset(w, seated) ==
    [win_streak EXCEPT ![w] = @ + 1]

\* the win streaks after player w, still seated, has won the round: w's grows
\* by one, every other seated player's is reset
StreaksAfterWin(w, seated) ==
    [p \in PIDs |-> IF p = w THEN win_streak[p] + 1
                    ELSE IF p \in seated THEN 0
                    ELSE win_streak[p]]

\* do_reveal_and_advance after the pacing sleep, up to the last broadcast
RevealPacing(f) ==
    /\ f \in reveals
    /\ f.pc = "pacing"
    /\ LoopQuiet
    /\ BotDelaysOver
    /\ LET seated == Range(players)
           w == IF f.winner_id # 0 THEN find_player(players, f.winner_id) ELSE 0
           still_has_cards == \E p \in seated : hand[p] # {}
       IN  /\ IF f.explosion
              THEN /\ win_streak' = [p \in PIDs |-> IF p \in seated THEN 0 ELSE win_streak[p]]
                   /\ score' = score
                   /\ aftershock_next' = TRUE
              ELSE /\ IF w # 0
                      THEN /\ score' = [score EXCEPT ![w] = @ + f.points]
                           /\ win_streak' = StreaksAfterWin(w, seated)
                      ELSE UNCHANGED <<score, win_streak>>
                   /\ aftershock_next' = FALSE
           /\ history' = HistoryInsert(history, HistoryEntry(f))
           /\ rounds_played' = rounds_played + 1
           /\ locked' = [p \in PIDs |-> IF p \in seated THEN FALSE ELSE locked[p]]
           /\ pending_plays' = [p \in PIDs |-> NoCard]
           /\ last_reveal' = <<>>
           /\ pending_award' = <<>>
           /\ IF ~still_has_cards
              THEN /\ phase' = "finished"
                   /\ UNCHANGED <<round, botSleep>>
              ELSE /\ round' = round + 1
                   /\ phase' = "lock_in"
                   /\ botSleep' = schedule_bots(players)
    /\ reveals' = (reveals \ {f}) \cup {[f EXCEPT !.pc = "final"]}
    /\ UNCHANGED <<target_size, host_id, players, starting, advancing,
                   timer_task, lock_deadline_ts, hand, conn, botBcast, tpc,
                   tcancel, startPending, startSleep, restartPending>>
    /\ UNCHANGED netVars

\* the last broadcast of do_reveal_and_advance is over: it returns, and
\* maybe_start_reveal's finally clears the guard; the host task goes on
RevealReturn(f) ==
    /\ f \in reveals
    /\ f.pc = "final"
    /\ reveals' = reveals \ {f}
    /\ advancing' = FALSE
    /\ LET kind == f.host[1]
           id == f.host[2]
       IN  /\ kind = "t" => ~tcancel[id]
           /\ conn' = IF kind = "h" THEN [conn EXCEPT ![id] = "joined"] ELSE conn
           /\ UNCHANGED botBcast
           \* a timer task that hosted the reveal runs timer_countdown's finally
           /\ tpc' = IF kind = "t" THEN [tpc EXCEPT ![id] = "free"] ELSE tpc
           /\ timer_task' = IF kind = "t" THEN 0 ELSE timer_task
           /\ lock_deadline_ts' = IF kind = "t" THEN 0 ELSE lock_deadline_ts
           /\ UNCHANGED tcancel
    /\ UNCHANGED <<target_size, host_id, phase, round, rounds_played, players,
                   pending_plays, last_reveal, history, starting,
                   aftershock_next, pending_award, playerVars, botSleep,
                   startPending, startSleep, restartPending>>
    /\ UNCHANGED netVars

\* ------------------------------------------------------ ws_room: commands
\* The messages a client sends.  A handler waits in receive_text ("open"
\* before its connection is bound to a player, "joined" after) or has a
\* message at hand that receive_text is about to return (OpenRx, Rx).
MsgTypes == {"join", "start", "restart", "lock"}

Rx == [join |-> "rx_join", start |-> "rx_start", restart |-> "rx_restart",
       lock |-> "rx_lock"]

OpenRx == [join |-> "open_rx_join", start |-> "open_rx_start",
           restart |-> "open_rx_restart", lock |-> "open_rx_lock"]

\* positions of a handler with a message at hand, or sending an error reply
InFlight ==
    {Rx[t] : t \in MsgTypes} \cup {OpenRx[t] : t \in MsgTypes}
        \cup {"error_send", "open_error_send"}

\* positions of the handler of a connection that is not bound to a player
Unbound == {"open", "open_error_send"} \cup {OpenRx[t] : t \in MsgTypes}

\* room.socket_to_player.get(c): the player id held for connection c (0:
\* none).  The entry is written by join and dropped, together with the
\* connection's membership of room.sockets, by the handler's finally and by
\* the pruning of broadcast_state.
socket_to_player(c) == IF c \in sockets /\ conn[c] \notin Unbound THEN c ELSE 0

\* the handler of the bound connection c handles a message of type t
Handles(c, t) == conn[c] = "joined" \/ conn[c] = Rx[t]

\* the handler of the unbound connection c handles a message of type t
HandlesUnbound(c, t) == conn[c] = "open" \/ conn[c] = OpenRx[t]

\* the conditions of join without `room.phase != "lobby"`
JoinAcceptedAnyPhase(c) == HandlesUnbound(c, "join")

\* join passes `player_id is not None` and `room.phase != "lobby"` (a name
\* is always given)
JoinAccepted(c) ==
    /\ HandlesUnbound(c, "join")
    /\ phase = "lobby"

\* join (the connection is bound to player id c from here on)
Join(c) ==
    /\ JoinAccepted(c)
    \* player ids are fresh names: the connections are numbered in the order
    \* in which they join
    /\ \A d \in 1..(c - 1) : conn[d] \notin Unbound
    /\ players' = Append(players, c)
    /\ host_id' = IF host_id = 0 THEN c ELSE host_id
    /\ conn' = [conn EXCEPT ![c] = "joined"]
    /\ UNCHANGED <<target_size, phase, round, rounds_played, pending_plays,
                   last_reveal, history, starting, advancing, aftershock_next,
                   timer_task, lock_deadline_ts, pending_award, playerVars,
                   botSleep, botBcast, tpc, tcancel, startPending, startSleep,
                   restartPending, reveals>>
    /\ UNCHANGED netVars

\* start passes its three checks
StartAccepted(c) ==
    /\ phase = "lobby"
    /\ host_id = c
    /\ Len(human_players(players)) >= 1

\* start: asyncio.create_task(start_game(room))
StartCmd(c) ==
    /\ Handles(c, "start")
    /\ StartAccepted(c)
    /\ Len(startPending) < MaxPendingStarts
    /\ startPending' = Append(startPending, c)
    /\ conn' = [conn EXCEPT ![c] = "joined"]
    /\ UNCHANGED <<roomVars, playerVars, botSleep, botBcast, tpc, tcancel,
                   startSleep, restartPending, reveals>>
    /\ UNCHANGED netVars

\* the guards of start_game without `if room.starting: return`
CanStartGameWhileStarting(ph, st, pl) ==
    /\ ph = "lobby"
    /\ Len(human_players(pl)) >= 1

\* the guards of start_game
CanStartGame(ph, st, pl) ==
    /\ ph = "lobby"
    /\ ~st
    /\ Len(human_players(pl)) >= 1

\* start_game filling the table with bots before its sleep
PlayersFilledBeforeSleep(pl) == ensure_bot_fill(pl, target_size)

\* room.players when start_game goes to sleep: as it found them (the bots
\* are filled in after the sleep)
PlayersBeforeSleep(pl) == pl

\* start_game up to its sleep
StartBegin ==
    /\ startPending # <<>>
    /\ startPending' = Tail(startPending)
    /\ IF CanStartGame(phase, starting, players)
       THEN /\ starting' = TRUE
            /\ startSleep' = startSleep + 1
            /\ players' = PlayersBeforeSleep(players)
       ELSE UNCHANGED <<starting, startSleep, players>>
    /\ UNCHANGED <<target_size, host_id, phase, round, rounds_played,
                   pending_plays, last_reveal, history, advancing,
                   aftershock_next, timer_task, lock_deadline_ts,
                   pending_award, playerVars, conn, botSleep, botBcast, tpc,
                   tcancel, restartPending, reveals>>
    /\ UNCHANGED netVars

\* start_game after its sleep: bot fill, reset, deal, schedule the bots
StartFinish ==
    /\ startSleep > 0
    /\ LoopQuiet
    /\ startSleep' = startSleep - 1
    /\ LET pl == ensure_bot_fill(players, target_size)
           seated == Range(pl)
       IN  /\ players' = pl
           /\ tcancel' = cancel_timer.tcancel
           /\ timer_task' = cancel_timer.timer_task
           /\ lock_deadline_ts' = cancel_timer.lock_deadline_ts
           /\ round' = 1
           /\ rounds_played' = 0
           /\ phase' = "lock_in"
           /\ pending_plays' = [p \in PIDs |-> NoCard]
           /\ last_reveal' = <<>>
           /\ pending_award' = <<>>
           /\ history' = <<>>
           /\ aftershock_next' = FALSE
           /\ score' = [p \in PIDs |-> IF p \in seated THEN 0 ELSE score[p]]
           /\ win_streak' = [p \in PIDs |-> IF p \in seated THEN 0 ELSE win_streak[p]]
           /\ locked' = [p \in PIDs |-> IF p \in seated THEN FALSE ELSE locked[p]]
           /\ \E h \in Deals(pl) :
                 hand' = [p \in PIDs |-> IF p \in seated THEN h[p] ELSE hand[p]]
           /\ botSleep' = schedule_bots(pl)
           /\ starting' = FALSE
    /\ UNCHANGED <<target_size, host_id, advancing, conn, botBcast, tpc,
                   startPending, restartPending, reveals>>
    /\ UNCHANGED netVars

\* restart passes its two checks
RestartAccepted(c) ==
    /\ phase = "finished"
    /\ host_id = c

\* restart: asyncio.create_task(restart_same_lobby(room))
RestartCmd(c) ==
    /\ Handles(c, "restart")
    /\ RestartAccepted(c)
    /\ restartPending = 0
    /\ restartPending' = c
    /\ conn' = [conn EXCEPT ![c] = "joined"]
    /\ UNCHANGED <<roomVars, playerVars, botSleep, botBcast, tpc, tcancel,
                   startPending, startSleep, reveals>>
    /\ UNCHANGED netVars

\* restart_same_lobby, and the start_game it awaits up to that one's sleep
RestartRun ==
    /\ restartPending # 0
    /\ restartPending' = 0
    /\ LET humans == human_players(players)
       IN  /\ tcancel' = cancel_timer.tcancel
           /\ timer_task' = cancel_timer.timer_task
           /\ lock_deadline_ts' = cancel_timer.lock_deadline_ts
           /\ players' = humans
           /\ host_id' = IF host_id = 0 \/ find_player(humans, host_id) = 0
                         THEN IF humans # <<>> THEN humans[1] ELSE 0
                         ELSE host_id
           /\ IF CanStartGame(phase, starting, humans)
              THEN /\ starting' = TRUE
                   /\ startSleep' = startSleep + 1
              ELSE UNCHANGED <<starting, startSleep>>
    /\ UNCHANGED <<target_size, phase, round, rounds_played, pending_plays,
                   last_reveal, history, advancing, aftershock_next,
                   pending_award, playerVars, conn, botSleep, botBcast, tpc,
                   startPending, reveals>>
    /\ UNCHANGED netVars

\* ensure_timer_started: the timer id the new timer_countdown task gets, 0 when
\* none is created
NewTimer ==
    IF timer_task # 0 THEN 0
    ELSE IF phase # "lock_in" THEN 0
    ELSE Min({t \in TimerIds : tpc[t] = "free"})

\* the conditions of lock without `you.locked`
LockAcceptedWhenLocked(c, card) ==
    /\ phase = "lock_in"
    /\ find_player(players, c) # 0
    /\ card \in hand[c]

\* lock passes its four checks (card is NoCard when the message names none)
LockAccepted(c, card) ==
    /\ phase = "lock_in"
    /\ find_player(players, c) # 0
    /\ ~locked[c]
    /\ card \in hand[c]

\* lock recording the card without taking it out of the hand
HandAfterLockKept(h, card) == h

\* chosen = you.hand.pop(idx)
HandAfterLock(h, card) == h \ {card}

\* lock, up to the broadcast that precedes maybe_start_reveal
Lock(c, card) ==
    /\ Handles(c, "lock")
    /\ LockAccepted(c, card)
    /\ timer_task = 0 => \E t \in TimerIds : tpc[t] = "free"
    /\ hand' = [hand EXCEPT ![c] = HandAfterLock(@, card)]
    /\ pending_plays' = [pending_plays EXCEPT ![c] = card]
    /\ locked' = [locked EXCEPT ![c] = TRUE]
    /\ LET t == NewTimer
       IN  IF t # 0
           THEN /\ timer_task' = t
                /\ tpc' = [tpc EXCEPT ![t] = "created"]
           ELSE UNCHANGED <<timer_task, tpc>>
    \* speed up bots once a human locks
    /\ botSleep' = [b \in BotIds |->
          IF b \in Range(players) /\ ~locked[b] THEN botSleep[b] + 1 ELSE botSleep[b]]
    /\ conn' = [conn EXCEPT ![c] = "lock_bcast"]
    /\ UNCHANGED <<target_size, host_id, phase, round, rounds_played, players,
                   last_reveal, history, starting, advancing, aftershock_next,
                   lock_deadline_ts, pending_award, score, win_streak, botBcast,
                   tcancel, startPending, startSleep, restartPending, reveals>>
    /\ UNCHANGED netVars

\* lock, from that broadcast on: maybe_start_reveal
LockResume(c) ==
    /\ conn[c] = "lock_bcast"
    /\ IF CanStartReveal
       THEN /\ BeginReveal(<<"h", c>>)
            /\ conn' = [conn EXCEPT ![c] = "reveal"]
            /\ UNCHANGED <<botBcast, tpc>>
       ELSE /\ conn' = [conn EXCEPT ![c] = "joined"]
            /\ UNCHANGED <<roomVars, playerVars, botSleep, botBcast, tpc, tcancel,
                           startPending, startSleep, restartPending, reveals>>
    /\ UNCHANGED netVars

\* the finally of ws_room without the host handoff
HostAfterLeaveKept(c, pl) == host_id

\* host handoff to first remaining human, pl being the players that remain
HostAfterLeave(c, pl) ==
    LET humans == human_players(pl)
    IN  IF host_id = c
        THEN IF humans # <<>> THEN humans[1] ELSE 0
        ELSE host_id

\* the finally of ws_room, for a connection whose handler waits in receive_text
Disconnect(c) ==
    /\ conn[c] = "joined"
    /\ conn' = [conn EXCEPT ![c] = "closed"]
    /\ LET pl == SelectSeq(players, LAMBDA p : p # c)
           humans == human_players(pl)
       IN  /\ players' = pl
           /\ host_id' = HostAfterLeave(c, pl)
           /\ IF Len(humans) < 1
              THEN /\ tcancel' = cancel_timer.tcancel
                   /\ timer_task' = cancel_timer.timer_task
                   /\ lock_deadline_ts' = cancel_timer.lock_deadline_ts
                   /\ phase' = "finished"
              ELSE UNCHANGED <<tcancel, timer_task, lock_deadline_ts, phase>>
    \* the Player object of c is unreachable from here on
    /\ score' = [score EXCEPT ![c] = 0]
    /\ hand' = [hand EXCEPT ![c] = {}]
    /\ locked' = [locked EXCEPT ![c] = FALSE]
    /\ win_streak' = [win_streak EXCEPT ![c] = 0]
    /\ UNCHANGED <<target_size, round, rounds_played, pending_plays,
                   last_reveal, history, starting, advancing, aftershock_next,
                   pending_award, botSleep, botBcast, tpc, startPending,
                   startSleep, restartPending, reveals>>
    /\ sockets' = sockets \ {c}
    /\ UNCHANGED bcast

\* ------------------------------------------- ws_room: messages turned away
\* a message of type t reaches the handler of c, which waits in receive_text
Receive(c, t) ==
    /\ Cardinality({d \in HumanIds : conn[d] \in InFlight}) < MaxInFlight
    /\ conn[c] \in {"joined", "open"}
    /\ conn' = [conn EXCEPT ![c] = IF conn[c] = "joined" THEN Rx[t] ELSE OpenRx[t]]
    /\ UNCHANGED <<roomVars, playerVars, botSleep, botBcast, tpc, tcancel,
                   startPending, startSleep, restartPending, reveals>>
    /\ UNCHANGED netVars

\* join on a bound connection: `continue`; join outside lobby: the error
\* "Game already started."
JoinTurnedAway(c) ==
    /\ conn[c] \in {Rx["join"], OpenRx["join"]}
    /\ ~JoinAccepted(c)
    /\ conn' = [conn EXCEPT ![c] = IF conn[c] = Rx["join"] THEN "joined"
                                   ELSE "open_error_send"]
    /\ UNCHANGED <<roomVars, playerVars, botSleep, botBcast, tpc, tcancel,
                   startPending, startSleep, restartPending, reveals>>
    /\ UNCHANGED netVars

\* any other message on an unbound connection: the error "Join first."
JoinFirst(c) ==
    /\ conn[c] \in {OpenRx[t] : t \in MsgTypes \ {"join"}}
    /\ conn' = [conn EXCEPT ![c] = "open_error_send"]
    /\ UNCHANGED <<roomVars, playerVars, botSleep, botBcast, tpc, tcancel,
                   startPending, startSleep, restartPending, reveals>>
    /\ UNCHANGED netVars

\* start outside lobby: `continue`; start in lobby by another than the host,
\* or without a human: an error
StartTurnedAway(c) ==
    /\ conn[c] = Rx["start"]
    /\ ~StartAccepted(c)
    /\ conn' = [conn EXCEPT ![c] = IF phase # "lobby" THEN "joined"
                                   ELSE "error_send"]
    /\ UNCHANGED <<roomVars, playerVars, botSleep, botBcast, tpc, tcancel,
                   startPending, startSleep, restartPending, reveals>>
    /\ UNCHANGED netVars

\* restart outside finished, or by another than the host: an error
RestartTurnedAway(c) ==
    /\ conn[c] = Rx["restart"]
    /\ ~RestartAccepted(c)
    /\ conn' = [conn EXCEPT ![c] = "error_send"]
    /\ UNCHANGED <<roomVars, playerVars, botSleep, botBcast, tpc, tcancel,
                   startPending, startSleep, restartPending, reveals>>
    /\ UNCHANGED netVars

\* lock that fails one of its checks: `continue`
LockTurnedAway(c, card) ==
    /\ conn[c] = Rx["lock"]
    /\ ~LockAccepted(c, card)
    /\ conn' = [conn EXCEPT ![c] = "joined"]
    /\ UNCHANGED <<roomVars, playerVars, botSleep, botBcast, tpc, tcancel,
                   startPending, startSleep, restartPending, reveals>>
    /\ UNCHANGED netVars

\* the send_text of an error reply completes; the handler is back in
\* receive_text
ErrorSent(c) ==
    /\ conn[c] \in {"error_send", "open_error_send"}
    /\ conn' = [conn EXCEPT ![c] = IF conn[c] = "error_send" THEN "joined"
                                   ELSE "open"]
    /\ UNCHANGED <<roomVars, playerVars, botSleep, botBcast, tpc, tcancel,
                   startPending, startSleep, restartPending, reveals>>
    /\ UNCHANGED netVars

\* ---------------------------------------------------------------- bot tasks
\* the guards of bot_lock_after_delay without `bot.locked`
BotFiresWhenLocked(b) == phase = "lock_in"

\* bot_lock_after_delay passes its two guards after the sleep
BotFires(b) ==
    /\ phase = "lock_in"
    /\ ~locked[b]

\* bot_lock_after_delay: the sleep ends and the guards turn the task away
BotSkip(b) ==
    /\ botSleep[b] > 0
    /\ LoopQuiet
    /\ ~BotFires(b)
    /\ botSleep' = [botSleep EXCEPT ![b] = @ - 1]
    /\ UNCHANGED <<roomVars, playerVars, conn, botBcast, tpc, tcancel,
                   startPending, startSleep, restartPending, reveals>>
    /\ UNCHANGED netVars

\* bot_lock_after_delay: the sleep ends, bot_choose locks a card, up to the
\* broadcast.  From there on the task no longer refers to its bot, so the
\* tasks suspended in that broadcast are counted.
BotLock(b) ==
    /\ botSleep[b] > 0
    /\ LoopQuiet
    /\ BotFires(b)
    /\ botBcast < MaxBotBcast
    /\ botSleep' = [botSleep EXCEPT ![b] = @ - 1]
    /\ botBcast' = botBcast + 1
    /\ IF hand[b] = {}
       THEN UNCHANGED <<hand, pending_plays, locked>>
       ELSE \E chosen \in BotChoices(b) :
               /\ hand' = [hand EXCEPT ![b] = @ \ {chosen}]
               /\ pending_plays' = [pending_plays EXCEPT ![b] = chosen]
               /\ locked' = [locked EXCEPT ![b] = TRUE]
    /\ UNCHANGED <<target_size, host_id, phase, round, rounds_played, players,
                   last_reveal, history, starting, advancing, aftershock_next,
                   timer_task, lock_deadline_ts, pending_award, score,
                   win_streak, conn, tpc, tcancel, startPending, startSleep,
                   restartPending, reveals>>
    /\ UNCHANGED netVars

\* bot_lock_after_delay from its broadcast on: maybe_start_reveal
BotResume ==
    /\ botBcast > 0
    /\ botBcast' = botBcast - 1
    /\ IF CanStartReveal
       THEN /\ BeginReveal(<<"b", 0>>)
            /\ UNCHANGED <<conn, tpc>>
       ELSE UNCHANGED <<roomVars, playerVars, conn, botSleep, tpc, tcancel,
                        startPending, startSleep, restartPending, reveals>>
    /\ UNCHANGED netVars

\* --------------------------------------------------------------- lock timer
\* lock_deadline_ts: 0 is None, 1 a deadline still ahead, 2 a deadline reached
\* timer_countdown starts to run: it sets the deadline and broadcasts
TimerStart(t) ==
    /\ tpc[t] = "created"
    /\ ~tcancel[t]
    /\ lock_deadline_ts' = 1
    /\ tpc' = [tpc EXCEPT ![t] = "bcast0"]
    /\ UNCHANGED <<target_size, host_id, phase, round, rounds_played, players,
                   pending_plays, last_reveal, history, starting, advancing,
                   aftershock_next, timer_task, pending_award, playerVars,
                   conn, botSleep, botBcast, tcancel, startPending, startSleep,
                   restartPending, reveals>>
    /\ UNCHANGED netVars

\* the first broadcast is over: the task enters its polling loop
TimerLoop(t) ==
    /\ tpc[t] = "bcast0"
    /\ ~tcancel[t]
    /\ tpc' = [tpc EXCEPT ![t] = "poll"]
    /\ UNCHANGED <<roomVars, playerVars, conn, botSleep, botBcast, tcancel,
                   startPending, startSleep, restartPending, reveals>>
    /\ UNCHANGED netVars

\* time.time() reaches the deadline, 10 s after the countdown began.  Bot
\* delays last at most 2.5 s and the last of them began when the first human
\* locked at the latest (only a bot not yet locked gets another one), so none
\* is still running by then.
DeadlinePasses ==
    /\ lock_deadline_ts = 1
    /\ LoopQuiet
    /\ BotDelaysOver
    /\ lock_deadline_ts' = 2
    /\ UNCHANGED <<target_size, host_id, phase, round, rounds_played, players,
                   pending_plays, last_reveal, history, starting, advancing,
                   aftershock_next, timer_task, pending_award, playerVars,
                   taskVars>>
    /\ UNCHANGED netVars

\* a poll finds the phase changed, everyone locked or the deadline cleared:
\* the task returns through its finally
TimerReturn(t) ==
    /\ tpc[t] = "poll"
    /\ ~tcancel[t]
    /\ LoopQuiet
    /\ phase # "lock_in" \/ all_locked(players, locked) \/ lock_deadline_ts = 0
    /\ lock_deadline_ts' = 0
    /\ timer_task' = 0
    /\ tpc' = [tpc EXCEPT ![t] = "free"]
    /\ UNCHANGED <<target_size, host_id, phase, round, rounds_played, players,
                   pending_plays, last_reveal, history, starting, advancing,
                   aftershock_next, pending_award, playerVars, conn, botSleep,
                   botBcast, tcancel, startPending, startSleep, restartPending,
                   reveals>>
    /\ UNCHANGED netVars

\* an auto-lock that draws from the whole deck instead of the player's hand
AutoLockAnyCard ==
    {ch \in [Range(players) -> Cards \cup {NoCard}] :
        \A p \in Range(players) :
            IF ~locked[p] /\ hand[p] # {} THEN ch[p] \in Cards ELSE ch[p] = NoCard}

\* the cards the auto-lock loop can draw: random.choice(p.hand) for every
\* seated player that is not locked and has cards, NoCard for the others
AutoLockChoices ==
    {ch \in [Range(players) -> Cards \cup {NoCard}] :
        \A p \in Range(players) :
            IF ~locked[p] /\ hand[p] # {} THEN ch[p] \in hand[p] ELSE ch[p] = NoCard}

\* a poll finds the deadline reached: auto-lock, up to the broadcast
TimerExpire(t) ==
    /\ tpc[t] = "poll"
    /\ ~tcancel[t]
    /\ LoopQuiet
    /\ phase = "lock_in"
    /\ ~all_locked(players, locked)
    /\ lock_deadline_ts = 2
    /\ \E ch \in AutoLockChoices :
          /\ hand' = [p \in PIDs |->
                IF p \in Range(players) /\ ch[p] # NoCard THEN hand[p] \ {ch[p]} ELSE hand[p]]
          /\ pending_plays' = [p \in PIDs |->
                IF p \in Range(players) /\ ch[p] # NoCard THEN ch[p] ELSE pending_plays[p]]
          /\ locked' = [p \in PIDs |->
                IF p \in Range(players) /\ ch[p] # NoCard THEN TRUE ELSE locked[p]]
    /\ tpc' = [tpc EXCEPT ![t] = "bcast1"]
    /\ UNCHANGED <<target_size, host_id, phase, round, rounds_played, players,
                   last_reveal, history, starting, advancing, aftershock_next,
                   timer_task, lock_deadline_ts, pending_award, score,
                   win_streak, conn, botSleep, botBcast, tcancel, startPending,
                   startSleep, restartPending, reveals>>
    /\ UNCHANGED netVars

\* timer_countdown from the broadcast after the auto-lock on:
\* maybe_start_reveal, then the finally
TimerResume(t) ==
    /\ tpc[t] = "bcast1"
    /\ ~tcancel[t]
    /\ IF CanStartReveal
       THEN /\ BeginReveal(<<"t", t>>)
            /\ tpc' = [tpc EXCEPT ![t] = "reveal"]
            /\ UNCHANGED <<conn, botBcast>>
       ELSE /\ lock_deadline_ts' = 0
            /\ timer_task' = 0
            /\ tpc' = [tpc EXCEPT ![t] = "free"]
            /\ UNCHANGED <<target_size, host_id, phase, round, rounds_played,
                           players, pending_plays, last_reveal, history,
                           starting, advancing, aftershock_next, pending_award,
                           playerVars, conn, botSleep, botBcast, tcancel,
                           startPending, startSleep, restartPending, reveals>>
    /\ UNCHANGED netVars

\* CancelledError reaches a cancelled timer task at the await it is suspended
\* in.  Inside the try of timer_countdown the finally runs; inside
\* do_reveal_and_advance the error also leaves maybe_start_reveal through its
\* finally, and the rest of do_reveal_and_advance never runs.
TimerCancelled(t) ==
    /\ tcancel[t]
    /\ tcancel' = [tcancel EXCEPT ![t] = FALSE]
    /\ tpc' = [tpc EXCEPT ![t] = "free"]
    /\ IF tpc[t] \in {"poll", "bcast1", "reveal"}
       THEN /\ lock_deadline_ts' = 0
            /\ timer_task' = 0
       ELSE UNCHANGED <<lock_deadline_ts, timer_task>>
    /\ IF tpc[t] = "reveal"
       THEN /\ reveals' = {f \in reveals : f.host # <<"t", t>>}
            /\ advancing' = FALSE
       ELSE UNCHANGED <<reveals, advancing>>
    /\ UNCHANGED <<target_size, host_id, phase, round, rounds_played, players,
                   pending_plays, last_reveal, history, starting,
                   aftershock_next, pending_award, playerVars, conn, botSleep,
                   botBcast, startPending, startSleep, restartPending>>
    /\ UNCHANGED netVars

\* ------------------------------------------------------------ specification
Next ==
    \/ \E c \in HumanIds : Join(c)
    \/ \E c \in HumanIds : StartCmd(c)
    \/ StartBegin
    \/ StartFinish
    \/ \E c \in HumanIds : RestartCmd(c)
    \/ RestartRun
    \/ \E c \in HumanIds : \E card \in Cards : Lock(c, card)
    \/ \E c \in HumanIds : LockResume(c)
    \/ \E c \in HumanIds : Disconnect(c)
    \/ \E b \in BotIds : BotSkip(b)
    \/ \E b \in BotIds : BotLock(b)
    \/ BotResume
    \/ \E t \in TimerIds : TimerStart(t)
    \/ \E t \in TimerIds : TimerLoop(t)
    \/ DeadlinePasses
    \/ \E t \in TimerIds : TimerReturn(t)
    \/ \E t \in TimerIds : TimerExpire(t)
    \/ \E t \in TimerIds : TimerResume(t)
    \/ \E t \in TimerIds : TimerCancelled(t)
    \/ \E f \in reveals : RevealPacing(f)
    \/ \E f \in reveals : RevealReturn(f)

Spec == Init /\ [][Next]_vars

\* The tasks of the event loop run whenever they can: a created task starts,
\* a sleep ends, a send completes or fails, a cancellation is delivered.  What
\* the clients send, and when they leave, is up to them.
FairSpec ==
    /\ Spec
    /\ WF_vars(StartBegin)
    /\ WF_vars(StartFinish)
    /\ WF_vars(RestartRun)
    /\ \A c \in HumanIds : WF_vars(LockResume(c))
    /\ \A b \in BotIds : WF_vars(BotSkip(b)) /\ WF_vars(BotLock(b))
    /\ WF_vars(BotResume)
    /\ WF_vars(DeadlinePasses)
    /\ \A t \in TimerIds :
          /\ WF_vars(TimerStart(t))
          /\ WF_vars(TimerLoop(t))
          /\ WF_vars(TimerReturn(t))
          /\ WF_vars(TimerExpire(t))
          /\ WF_vars(TimerResume(t))
          /\ WF_vars(TimerCancelled(t))
    /\ WF_vars(\E f \in reveals : RevealPacing(f))
    /\ WF_vars(\E f \in reveals : RevealReturn(f))

\* ------------------------------------------- the reveal on bounded inputs
\* A game in progress in which the last seated player has just locked: round
\* r of a game whose latest `wins` rounds the first player won and whose
\* earlier rounds all exploded.  The hands hold what the reduced deck has left.
FnRank(j) == 2 + (j % 13)

FnPoints(r, wins, j) ==
    LET nth == j - (r - 1 - wins)
    IN  round_point_value(nth = 1 /\ j > 1, nth - 1)

RECURSIVE FnScore(_, _, _)
FnScore(r, wins, j) ==
    IF j <= r - 1 - wins THEN 0
    ELSE FnPoints(r, wins, j) + FnScore(r, wins, j - 1)

FnHistory(r, wins, w) ==
    [i \in 1..Min({r - 1, 10}) |->
        LET j == r - i
        IN  IF j > r - 1 - wins
            THEN [round |-> j, winnerId |-> w, explosion |-> FALSE,
                  topRank |-> FnRank(j), winnerCard |-> <<"S", FnRank(j)>>,
                  points |-> FnPoints(r, wins, j), joker |-> is_joker_round(j)]
            ELSE [round |-> j, winnerId |-> 0, explosion |-> TRUE,
                  topRank |-> FnRank(j), winnerCard |-> NoCard,
                  points |-> 0, joker |-> is_joker_round(j)]]

RevealInit ==
    \E k \in 1..MaxHumans, ts \in TargetSizes, r \in 1..MaxFnRound, wins \in 0..2 :
        LET pl == ensure_bot_fill([i \in 1..k |-> i], ts)
            seated == Range(pl)
            each == (Cardinality(Cards) - Len(pl)) \div Len(pl)
        IN  /\ wins <= r - 1
            /\ target_size = ts
            /\ host_id = 1
            /\ phase = "lock_in"
            /\ round = r
            /\ rounds_played = r - 1
            /\ players = pl
            /\ \E pp \in [seated -> Cards] :
                  /\ \A p, q \in seated : p # q => pp[p] # pp[q]
                  /\ pending_plays = [p \in PIDs |-> IF p \in seated THEN pp[p] ELSE NoCard]
                  /\ \E h \in [seated -> SUBSET (Cards \ {pp[p] : p \in seated})] :
                        /\ \A p \in seated : Cardinality(h[p]) = each
                        /\ \A p, q \in seated : p # q => h[p] \cap h[q] = {}
                        /\ hand = [p \in PIDs |-> IF p \in seated THEN h[p] ELSE {}]
            /\ last_reveal = <<>>
            /\ history = FnHistory(r, wins, pl[1])
            /\ starting = FALSE
            /\ advancing = FALSE
            /\ aftershock_next = (wins = 0 /\ r > 1)
            /\ timer_task = 1
            /\ lock_deadline_ts = IF k >= 2 THEN 1 ELSE 0
            /\ pending_award = <<>>
            /\ score = [p \in PIDs |-> IF p = pl[1] THEN FnScore(r, wins, r - 1) ELSE 0]
            /\ win_streak = [p \in PIDs |-> IF p = pl[1] THEN wins ELSE 0]
            /\ locked = [p \in PIDs |-> p \in seated]
            /\ conn = [c \in HumanIds |->
                  IF c = 1 THEN "lock_bcast" ELSE IF c <= k THEN "joined" ELSE "open"]
            /\ botSleep = [b \in BotIds |-> 0]
            /\ botBcast = 0
            /\ tpc = [t \in TimerIds |->
                  IF t = 1 THEN (IF k >= 2 THEN "poll" ELSE "created") ELSE "free"]
            /\ tcancel = [t \in TimerIds |-> FALSE]
            /\ startPending = <<>>
            /\ startSleep = 0
            /\ restartPending = 0
            /\ reveals = {}
            /\ sockets = HumanIds
            /\ bcast = <<>>

NextReveal ==
    \/ \E c \in HumanIds : LockResume(c)
    \/ \E t \in TimerIds : TimerCancelled(t)
    \/ \E f \in reveals : RevealPacing(f)
    \/ \E f \in reveals : RevealReturn(f)

SpecReveal == RevealInit /\ [][NextReveal]_vars

\* The program with the clients' messages on their way: a message arrives at
\* a handler in one step and is handled, accepted or turned away, in a later
\* one; the reply to a message turned away is the handler's next position.
NextCmd ==
    \/ Next
    \/ \E c \in HumanIds : \E t \in MsgTypes : Receive(c, t)
    \/ \E c \in HumanIds : JoinTurnedAway(c)
    \/ \E c \in HumanIds : JoinFirst(c)
    \/ \E c \in HumanIds : StartTurnedAway(c)
    \/ \E c \in HumanIds : RestartTurnedAway(c)
    \/ \E c \in HumanIds : \E card \in Cards \cup {NoCard} : LockTurnedAway(c, card)
    \/ \E c \in HumanIds : ErrorSent(c)

SpecCmd == Init /\ [][NextCmd]_vars

\* A lobby of k humans, joined in the order of their ids, at a table of up to
\* MaxDealTarget seats, whose host has sent start: start_game is in its sleep.
\* Until it deals, humans may still join and leave.
DealInit ==
    \E k \in 1..MaxHumans, ts \in 2..MaxDealTarget :
        /\ target_size = ts
        /\ host_id = 1
        /\ phase = "lobby"
        /\ round = 0
        /\ rounds_played = 0
        /\ players = [i \in 1..k |-> i]
        /\ pending_plays = [p \in PIDs |-> NoCard]
        /\ last_reveal = <<>>
        /\ history = <<>>
        /\ starting = TRUE
        /\ advancing = FALSE
        /\ aftershock_next = FALSE
        /\ timer_task = 0
        /\ lock_deadline_ts = 0
        /\ pending_award = <<>>
        /\ score = [p \in PIDs |-> 0]
        /\ hand = [p \in PIDs |-> {}]
        /\ locked = [p \in PIDs |-> FALSE]
        /\ win_streak = [p \in PIDs |-> 0]
        /\ conn = [c \in HumanIds |-> IF c <= k THEN "joined" ELSE "open"]
        /\ botSleep = [b \in BotIds |-> 0]
        /\ botBcast = 0
        /\ tpc = [t \in TimerIds |-> "free"]
        /\ tcancel = [t \in TimerIds |-> FALSE]
        /\ startPending = <<>>
        /\ startSleep = 1
        /\ restartPending = 0
        /\ reveals = {}
        /\ sockets = HumanIds
        /\ bcast = <<>>

NextDeal ==
    \/ \E c \in HumanIds : Join(c)
    \/ \E c \in HumanIds : Disconnect(c)
    \/ StartFinish

SpecDeal == DealInit /\ [][NextDeal]_vars

\* A room just created, with MaxLobbyConns connections accepted: more than
\* the smallest table seats.
LobbyInit ==
    /\ target_size \in TargetSizes
    /\ host_id = 0
    /\ phase = "lobby"
    /\ round = 0
    /\ rounds_played = 0
    /\ players = <<>>
    /\ pending_plays = [p \in PIDs |-> NoCard]
    /\ last_reveal = <<>>
    /\ history = <<>>
    /\ starting = FALSE
    /\ advancing = FALSE
    /\ aftershock_next = FALSE
    /\ timer_task = 0
    /\ lock_deadline_ts = 0
    /\ pending_award = <<>>
    /\ score = [p \in PIDs |-> 0]
    /\ hand = [p \in PIDs |-> {}]
    /\ locked = [p \in PIDs |-> FALSE]
    /\ win_streak = [p \in PIDs |-> 0]
    /\ conn = [c \in LobbyConns |-> "open"]
    /\ botSleep = [b \in BotIds |-> 0]
    /\ botBcast = 0
    /\ tpc = [t \in TimerIds |-> "free"]
    /\ tcancel = [t \in TimerIds |-> FALSE]
    /\ startPending = <<>>
    /\ startSleep = 0
    /\ restartPending = 0
    /\ reveals = {}
    /\ sockets = LobbyConns
    /\ bcast = <<>>

\* the lobby up to the deal: joins, departures, the host's start
NextLobby ==
    \/ \E c \in LobbyConns : Join(c)
    \/ \E c \in LobbyConns : Disconnect(c)
    \/ \E c \in LobbyConns : StartCmd(c)
    \/ StartBegin
    \/ StartFinish

SpecLobby == LobbyInit /\ [][NextLobby]_vars

\* -------------------------------------------------- broadcast, send by send
\* the orders in which a loop can visit the members of a set
Orders(S) ==
    {q \in [1..Cardinality(S) -> S] : \A i, j \in 1..Cardinality(S) : i # j => q[i] # q[j]}

\* a loop that a failed send ends
RestAfterFailureNone(rest) == <<>>

\* the sockets the loop of broadcast_state goes on to after a send has
\* raised: `except Exception` keeps the loop running over the rest of the list
RestAfterFailure(rest) == rest

\* A game just dealt to k humans and the bots that fill the table, one human
\* at most already locked.  Every connection is open; those beyond k have not
\* joined.  No broadcast is running.
BroadcastInit ==
    \E k \in 1..MaxHumans, ts \in TargetSizes :
        LET pl == ensure_bot_fill([i \in 1..k |-> i], ts)
        IN  /\ target_size = ts
            /\ host_id = 1
            /\ phase = "lock_in"
            /\ round = 1
            /\ rounds_played = 0
            /\ players = pl
            /\ \E h \in Deals(pl) : \E lk \in {0} \cup (1..k) :
                  \E card \in IF lk = 0 THEN {NoCard} ELSE h[lk] :
                      /\ hand = [p \in PIDs |-> IF p \notin Range(pl) THEN {}
                                               ELSE IF p = lk THEN h[p] \ {card}
                                               ELSE h[p]]
                      /\ locked = [p \in PIDs |-> p = lk]
                      /\ pending_plays = [p \in PIDs |-> IF p = lk THEN card ELSE NoCard]
            /\ last_reveal = <<>>
            /\ history = <<>>
            /\ starting = FALSE
            /\ advancing = FALSE
            /\ aftershock_next = FALSE
            /\ timer_task = 0
            /\ lock_deadline_ts = 0
            /\ pending_award = <<>>
            /\ score = [p \in PIDs |-> 0]
            /\ win_streak = [p \in PIDs |-> 0]
            /\ conn = [c \in HumanIds |-> IF c <= k THEN "joined" ELSE "open"]
            /\ botSleep = [b \in BotIds |-> 0]
            /\ botBcast = 0
            /\ tpc = [t \in TimerIds |-> "free"]
            /\ tcancel = [t \in TimerIds |-> FALSE]
            /\ startPending = <<>>
            /\ startSleep = 0
            /\ restartPending = 0
            /\ reveals = {}
            /\ sockets = HumanIds
            /\ bcast = <<>>

\* broadcast_state is called: `for ws in list(room.sockets)` copies the set,
\* in the order the set iterates
BroadcastBegin ==
    /\ bcast = <<>>
    /\ \E order \in Orders(sockets) :
          bcast' = <<[list |-> order, todo |-> order, dead |-> <<>>, sent |-> {},
                      pc |-> "send"]>>
    /\ UNCHANGED <<roomVars, playerVars, taskVars, sockets>>

\* one turn of the loop: the payload for the next socket is built and
\* send_text either completes (ok) or raises, which puts the socket on dead
BroadcastSend(ok) ==
    /\ bcast # <<>>
    /\ bcast[1].pc = "send"
    /\ bcast[1].todo # <<>>
    /\ LET f == bcast[1]
           ws == Head(f.todo)
           payload == broadcast_state(socket_to_player(ws), hand, pending_plays)
       IN  bcast' = <<IF ok
                      THEN [f EXCEPT !.todo = Tail(@),
                                     !.sent = @ \cup {<<ws, payload>>}]
                      ELSE [f EXCEPT !.todo = RestAfterFailure(Tail(@)),
                                     !.dead = Append(@, ws)]>>
    /\ UNCHANGED <<roomVars, playerVars, taskVars, sockets>>

\* the loop is over: the dead sockets leave room.sockets (and with it
\* room.socket_to_player), and broadcast_state returns
BroadcastPrune ==
    /\ bcast # <<>>
    /\ bcast[1].pc = "send"
    /\ bcast[1].todo = <<>>
    /\ sockets' = sockets \ Range(bcast[1].dead)
    /\ bcast' = <<[bcast[1] EXCEPT !.pc = "returned"]>>
    /\ UNCHANGED <<roomVars, playerVars, taskVars>>

NextBroadcast ==
    \/ BroadcastBegin
    \/ \E ok \in BOOLEAN : BroadcastSend(ok)
    \/ BroadcastPrune

SpecBroadcast == BroadcastInit /\ [][NextBroadcast]_vars

\* ------------------------------------------------------------------ claims
Seated == Range(players)

\* C1: whenever the room is in lock_in and every seated player is locked, the
\* room eventually enters reveal.  Checked in the weaker form the claim
\* implies: the room eventually leaves lock_in.
C1_AllLockedLeavesLockIn ==
    (phase = "lock_in" /\ Seated # {} /\ \A p \in Seated : locked[p])
        ~> (phase # "lock_in")

\* C2: every reveal phase eventually ends (the room moves on to lock_in or to
\* finished), whichever task started the reveal.
C2_RevealEnds == (phase = "reveal") ~> (phase # "reveal")

\* C3: a restart carried out while a human is seated puts the room into
\* lock_in.  Checked in the weaker form the claim implies: once
\* restart_same_lobby has run, the new game is started or being started.
C3_RestartStartsGame ==
    [][(restartPending' < restartPending /\ \E p \in Seated : ~is_bot(p))
          => (phase' = "lock_in" \/ starting')]_vars

\* C4: once the phase is finished it stays finished until a restart is
\* carried out.
C4_FinishedUntilRestart ==
    [][phase = "finished"
          => (phase' = "finished" \/ restartPending' < restartPending)]_vars

\* C5: in lock_in, whenever a seated player is locked and another is not, a
\* lock timer is active.
C5_TimerWhileWaiting ==
    (/\ phase = "lock_in"
     /\ \E p \in Seated : locked[p]
     /\ \E p \in Seated : ~locked[p])
        => timer_task # 0

\* C6: when the timer finds the deadline reached, every seated player that is
\* not locked and holds cards becomes locked with a card of its own hand, which
\* leaves the hand and becomes its pending play; nobody else's hand, lock or
\* play changes; and when the timer task goes on after its broadcast, a reveal
\* starts if everyone is locked and none is in progress.
C6_TimerAutoLock ==
    [][\A t \in TimerIds :
          /\ (tpc[t] = "poll" /\ tpc'[t] = "bcast1") =>
                /\ players' = players
                /\ phase' = "lock_in"
                /\ \A p \in PIDs :
                      IF p \in Seated /\ ~locked[p] /\ hand[p] # {}
                      THEN /\ locked'[p]
                           /\ pending_plays'[p] \in hand[p]
                           /\ hand'[p] = hand[p] \ {pending_plays'[p]}
                      ELSE /\ locked'[p] = locked[p]
                           /\ pending_plays'[p] = pending_plays[p]
                           /\ hand'[p] = hand[p]
          /\ (tpc[t] = "bcast1" /\ tpc'[t] # "bcast1" /\ ~tcancel[t]) =>
                ((/\ phase = "lock_in"
                  /\ Seated # {}
                  /\ \A p \in Seated : locked[p]
                  /\ ~advancing)
                    => (phase' = "reveal" /\ last_reveal' # <<>>))]_vars

\* the timer has just auto-locked the players that had not locked
C6_Witness ==
    /\ phase = "lock_in"
    /\ \E t \in TimerIds : tpc[t] = "bcast1" /\ ~tcancel[t]
    /\ \A p \in Seated : locked[p] /\ pending_plays[p] # NoCard

\* C7: in every state with phase reveal, lobby or finished no lock timer is
\* active: the handle and the deadline are cleared, and a timer task that has
\* not ended yet has been cancelled.
C7_NoTimerOutsideLockIn ==
    phase \in {"reveal", "lobby", "finished"} =>
        /\ timer_task = 0
        /\ lock_deadline_ts = 0
        /\ \A t \in TimerIds : tpc[t] # "free" => tcancel[t]

\* a reveal has begun while the timer was polling
C7_Witness ==
    /\ phase = "reveal"
    /\ \E t \in TimerIds : tpc[t] = "poll" /\ tcancel[t]

\* C8: at most one task is inside do_reveal_and_advance at any time, the
\* guard is set while one is, and no round is scored twice.
C8_SingleReveal ==
    /\ Cardinality(reveals) <= 1
    /\ reveals # {} => advancing
    /\ \A i, j \in 1..Len(history) : i # j => history[i].round # history[j].round

\* everyone is locked again, and a second task is about to call
\* maybe_start_reveal, while the previous reveal has not returned yet
C8_Witness ==
    /\ \E f \in reveals : f.pc = "final"
    /\ phase = "lock_in"
    /\ Seated # {}
    /\ \A p \in Seated : locked[p]
    /\ botBcast > 0 \/ \E c \in HumanIds : conn[c] = "lock_bcast"

\* the rank that decides the round: the lowest locked rank of the seated
\* players when the round number is a multiple of 5, else the highest
ExtremalRank ==
    CHOOSE r \in {pending_plays[p][2] : p \in Seated} :
        \A p \in Seated :
            IF round % 5 = 0 THEN r <= pending_plays[p][2] ELSE r >= pending_plays[p][2]

\* C9: the published round is an explosion iff at least two seated players'
\* locked cards have the extremal rank; an explosion has no winner and 0
\* points; any other round has exactly one winner, a seated player.
C9_ExplosionCriterion ==
    last_reveal # <<>> =>
        LET r == last_reveal[1]
            tops == {p \in Seated : pending_plays[p][2] = ExtremalRank}
        IN  /\ r.explosion <=> Cardinality(tops) >= 2
            /\ r.explosion => (r.winnerId = 0 /\ r.points = 0)
            /\ ~r.explosion => (r.winnerId \in Seated /\ r.points >= 1)

\* an explosion is published
C9_Witness ==
    /\ last_reveal # <<>>
    /\ last_reveal[1].explosion
    /\ \E p, q \in Seated : p # q /\ pending_plays[p][2] = pending_plays[q][2]

\* C10: the published topRank is the highest locked rank on a round whose
\* number is not a multiple of 5 and the lowest on one whose number is; the
\* winner of a round without explosion is the one seated player whose locked
\* card has that rank.
C10_ExtremalRank ==
    last_reveal # <<>> =>
        LET r == last_reveal[1]
            ranks == {pending_plays[p][2] : p \in Seated}
        IN  /\ r.joker <=> (round % 5 = 0)
            /\ r.topRank \in ranks
            /\ round % 5 # 0 => \A x \in ranks : x <= r.topRank
            /\ round % 5 = 0 => \A x \in ranks : x >= r.topRank
            /\ ~r.explosion =>
                  /\ r.winnerId \in Seated
                  /\ pending_plays[r.winnerId][2] = r.topRank
                  /\ \A p \in Seated : pending_plays[p][2] = r.topRank => p = r.winnerId
                  /\ r.winnerCard = pending_plays[r.winnerId]

\* a joker round won with the lowest card against a higher one
C10_Witness ==
    /\ last_reveal # <<>>
    /\ round % 5 = 0
    /\ ~last_reveal[1].explosion
    /\ \E p \in Seated : pending_plays[p][2] > pending_plays[last_reveal[1].winnerId][2]

\* C11: the published point value of a round with a single winner is 2 when
\* aftershock_next is set, else 2 when the winner's streak before the round is
\* at least 2, else 1; it is never more than 2.
C11_PointValue ==
    (last_reveal # <<>> /\ ~last_reveal[1].explosion /\ last_reveal[1].winnerId \in Seated) =>
        LET r == last_reveal[1]
            streak == win_streak[r.winnerId]
        IN  /\ aftershock_next => r.points = 2
            /\ (~aftershock_next /\ streak >= 2) => r.points = 2
            /\ (~aftershock_next /\ streak < 2) => r.points = 1
            /\ r.points <= 2
            /\ pending_award # <<>> /\ pending_award[1].points = r.points

\* a third consecutive win is published, no aftershock pending
C11_Witness ==
    /\ last_reveal # <<>>
    /\ ~last_reveal[1].explosion
    /\ last_reveal[1].winnerId \in Seated
    /\ win_streak[last_reveal[1].winnerId] = 2
    /\ ~aftershock_next
    /\ last_reveal[1].points = 2

\* C12: when the pacing delay of a reveal elapses, an explosion sets every
\* seated player's streak to 0 and aftershock_next to true and changes no
\* score; any other round adds the published points to the winner's score
\* and 1 to the winner's streak (if the winner is still seated), sets every
\* other seated player's streak to 0, changes no other score and clears
\* aftershock_next.
C12_ScoringAfterPacing ==
    [][(last_reveal # <<>> /\ last_reveal' = <<>> /\ rounds_played' = rounds_played + 1) =>
          LET r == last_reveal[1]
          IN  IF r.explosion
              THEN /\ \A p \in Seated : win_streak'[p] = 0 /\ score'[p] = score[p]
                   /\ aftershock_next'
              ELSE /\ r.winnerId \in Seated =>
                         /\ score'[r.winnerId] = score[r.winnerId] + r.points
                         /\ win_streak'[r.winnerId] = win_streak[r.winnerId] + 1
                   /\ \A p \in Seated \ {r.winnerId} :
                         win_streak'[p] = 0 /\ score'[p] = score[p]
                   /\ ~aftershock_next']_vars

\* C13: from the step that publishes the reveal record up to the step at which
\* the pacing delay elapses, no seated player's score or win streak changes,
\* the history keeps its entries and aftershock_next its value.
C13_DeferredScoring ==
    [][last_reveal' # <<>> =>
          /\ \A p \in Seated \cap Range(players') :
                score'[p] = score[p] /\ win_streak'[p] = win_streak[p]
          /\ history' = history
          /\ aftershock_next' = aftershock_next]_vars

\* a round with a winner and points to award is on display, its pacing sleep
\* still running and its history entry not yet written
C13_Witness ==
    /\ last_reveal # <<>>
    /\ phase = "reveal"
    /\ last_reveal[1].winnerId \in Seated
    /\ last_reveal[1].points >= 1
    /\ \E f \in reveals : f.pc = "pacing"
    /\ \A i \in 1..Len(history) : history[i].round # round

\* C14: a seated player's score is never below 0, and no step other than the
\* reset of start_game lowers the score of a player who stays seated.
C14_ScoreMonotone ==
    /\ [](\A p \in Seated : score[p] >= 0)
    /\ [][\A p \in Seated \cap Range(players') :
             startSleep' < startSleep \/ score'[p] >= score[p]]_vars

\* a player has been awarded points and the game goes on
C14_Witness ==
    /\ phase = "lock_in"
    /\ round >= 2
    /\ \E p \in Seated : score[p] >= 1

\* C15: in lock_in the snapshot sent to a recipient is the same whatever cards
\* another seated player holds (of the same number) and whatever card, if
\* any, that player has pending; and a snapshot carries the reveal record
\* only in phase reveal or finished.
C15_OwnHandOnly ==
    \A c \in {x \in HumanIds : conn[x] # "closed"} :
        LET pid == socket_to_player(c)
            sent == broadcast_state(pid, hand, pending_plays)
        IN  /\ sent.lastReveal # <<>> => phase \in {"reveal", "finished"}
            /\ phase = "lock_in" =>
                  \A q \in Seated \ {pid} :
                      \A h \in {x \in SUBSET Cards : Cardinality(x) = Cardinality(hand[q])} :
                          \A card \in Cards \cup {NoCard} :
                              broadcast_state(pid, [hand EXCEPT ![q] = h],
                                              [pending_plays EXCEPT ![q] = card]) = sent

\* a joined recipient in lock_in, and another seated player who holds cards
\* and has one pending
C15_Witness ==
    /\ phase = "lock_in"
    /\ \E c \in HumanIds, q \in Seated :
          /\ conn[c] = "joined"
          /\ c \in Seated
          /\ q # c
          /\ hand[q] # {}
          /\ pending_plays[q] # NoCard

\* C16: the hands of two distinct seated players share no card; no pending
\* play and no card recorded as played in an earlier round is in a seated
\* player's hand; and between two deals the hand of a player who stays seated
\* only loses cards, so a card that has left a hand never comes back.  (A hand
\* is a set of cards: the deck new_deck builds holds each card once and
\* deal_equally cuts it into slices.)
C16_HandsDisjoint ==
    /\ [](/\ \A p, q \in Seated : p # q => hand[p] \cap hand[q] = {}
          /\ \A p \in PIDs, q \in Seated : pending_plays[p] \notin hand[q]
          /\ \A i \in 1..Len(history), q \in Seated : history[i].winnerCard \notin hand[q])
    /\ [][\A p \in Seated \cap Range(players') :
             startSleep' < startSleep \/ hand'[p] \subseteq hand[p]]_vars

\* a later round: a card of an earlier round is on record, a card is pending
\* and a seated player still holds cards
C16_Witness ==
    /\ phase = "lock_in"
    /\ round >= 2
    /\ \E i \in 1..Len(history) : history[i].winnerCard # NoCard
    /\ \E p \in Seated : pending_plays[p] # NoCard
    /\ \E q \in Seated : hand[q] # {}

\* the cards in the hands of the seated players
CardsInHands == UNION {hand[p] : p \in Seated}

\* C17: the cards in seated players' hands, the cards played (pending plays
\* included) and the remainder of the deal add up to the deck.  Checked in
\* the form the claim implies for a single step: outside a deal, a card that
\* leaves the seated players' hands has become a pending play.
C17_DeckConserved ==
    [][startSleep' < startSleep \/
          \A x \in CardsInHands \ CardsInHands' :
              \E p \in PIDs : pending_plays'[p] = x]_vars

\* C18: every key of pending_plays is the id of a seated player.
C18_PendingKeysSeated ==
    \A p \in PIDs : pending_plays[p] # NoCard => p \in Seated

\* C19: a seated player is locked exactly when pending_plays holds a card for
\* that player, and no play of a reveal record is the sentinel card.
C19_LockedIffPending ==
    /\ \A p \in Seated : locked[p] <=> pending_plays[p] # NoCard
    /\ last_reveal # <<>> =>
          \A i \in 1..Len(last_reveal[1].plays) :
              last_reveal[1].plays[i].card # SentinelCard

\* a reveal record with the plays of two or more players is out, computed
\* from the pending plays of the players locked for it
C19_Witness ==
    /\ last_reveal # <<>>
    /\ Len(last_reveal[1].plays) >= 2
    /\ \E p \in Seated : locked[p]

\* C20: while a reveal record is present, its order lists every seated player
\* once and nobody else, and its plays follow the order one entry per id.
C20_OrderIsPermutation ==
    last_reveal # <<>> =>
        LET r == last_reveal[1]
        IN  /\ Range(r.order) = Seated
            /\ Len(r.order) = Cardinality(Seated)
            /\ Len(r.plays) = Len(r.order)
            /\ \A i \in 1..Len(r.order) : r.plays[i].playerId = r.order[i]

\* C21: a player leaving during lock_in while a human stays does not end the
\* round (phase and round stay, the players who stay keep their hands, locks
\* and pending plays), and the reveal that follows is computed over the
\* players seated when it starts: its order and plays name exactly them, each
\* with the card that player has pending, and extremal rank, explosion and
\* winner are those of these cards alone.
C21_DepartedExcluded ==
    [][/\ (/\ phase = "lock_in"
            /\ Len(players') < Len(players)
            /\ \E p \in Range(players') : ~is_bot(p)) =>
              /\ phase' = "lock_in"
              /\ round' = round
              /\ \A p \in Range(players') :
                    /\ hand'[p] = hand[p]
                    /\ locked'[p] = locked[p]
                    /\ pending_plays'[p] = pending_plays[p]
       /\ (phase = "lock_in" /\ phase' = "reveal") =>
              LET r == last_reveal'[1]
                  tops == {p \in Seated : pending_plays[p][2] = ExtremalRank}
              IN  /\ Range(r.order) = Seated
                  /\ Len(r.plays) = Cardinality(Seated)
                  /\ \A i \in 1..Len(r.plays) :
                        /\ r.plays[i].playerId \in Seated
                        /\ r.plays[i].card = pending_plays[r.plays[i].playerId]
                  /\ r.topRank = ExtremalRank
                  /\ r.explosion <=> Cardinality(tops) >= 2
                  /\ ~r.explosion => tops = {r.winnerId}]_vars

\* a reveal is out with a human seated while a player who locked a card
\* that beats the published top rank has left and is not part of it
C21_Witness ==
    /\ phase = "reveal"
    /\ last_reveal # <<>>
    /\ ~last_reveal[1].joker
    /\ \E p \in Seated : ~is_bot(p)
    /\ Range(last_reveal[1].order) = Seated
    /\ \E p \in PIDs \ Seated :
          /\ pending_plays[p] # NoCard
          /\ pending_plays[p][2] > last_reveal[1].topRank

\* C22: the history never holds more than 10 entries and lists them most
\* recent first (round numbers strictly decreasing from the head); the step
\* that completes a reveal puts exactly one entry, that of the round just
\* played, at the head and keeps the earlier entries in order behind it,
\* dropping the oldest when there would be more than 10; no other step of a
\* running game changes the history.
C22_HistoryBounded ==
    /\ [](/\ Len(history) <= 10
          /\ \A i \in 1..(Len(history) - 1) : history[i].round > history[i + 1].round)
    /\ [][IF rounds_played' = rounds_played + 1
          THEN /\ Len(history') = Min({Len(history) + 1, 10})
               /\ history'[1].round = round
               /\ \A i \in 2..Len(history') : history'[i] = history[i - 1]
          ELSE history' = history]_vars

\* the reveal of round 11 is complete: the history holds rounds 11 down to 2
\* and the entry of round 1 is gone
C22_Witness ==
    /\ rounds_played = 11
    /\ Len(history) = 10
    /\ history[1].round = 11
    /\ history[10].round = 2

\* C23: a join seats a player only when the phase is lobby and the connection
\* is not yet bound: a step that seats a human happens in lobby, seats exactly
\* one player, at the end of the list, for a connection that was unbound and
\* is bound from then on; outside lobby the set of seated humans never grows;
\* and a connection is bound to at most one player: no id is seated twice and
\* the seated humans are exactly the bound connections.
C23_JoinOnlyInLobby ==
    /\ [](/\ \A i, j \in 1..Len(players) : players[i] = players[j] => i = j
          /\ \A c \in HumanIds : c \in Seated <=> conn[c] \notin {"open", "closed"})
    /\ [][/\ phase # "lobby" =>
                Range(human_players(players')) \subseteq Range(human_players(players))
          /\ \A c \in HumanIds :
                (c \in Range(players') \ Seated) =>
                    /\ phase = "lobby"
                    /\ conn[c] = "open"
                    /\ conn'[c] = "joined"
                    /\ players' = Append(players, c)]_vars

\* outside lobby a human is seated next to a connection that is still unbound
C23_Witness ==
    /\ phase \in {"lock_in", "reveal", "finished"}
    /\ \E c \in HumanIds : c \in Seated
    /\ \E c \in HumanIds : conn[c] = "open"

C25_NonHostTurnedAway ==
    [][\A c \in HumanIds :
          (/\ conn[c] \in {Rx["start"], Rx["restart"]}
           /\ c # host_id
           /\ conn'[c] # conn[c]) =>
              /\ conn'[c] = "error_send"
              /\ \A d \in HumanIds \ {c} : conn'[d] = conn[d]
              /\ <<roomVars, playerVars, botSleep, botBcast, tpc, tcancel,
                    startPending, startSleep, restartPending, reveals>>'
                    = <<roomVars, playerVars, botSleep, botBcast, tpc, tcancel,
                        startPending, startSleep, restartPending, reveals>>]_vars

\* C26: a lock takes effect only in lock_in, for a seated sender who is not
\* locked, with a card of the sender's hand: every step in which a handler
\* goes on from a lock to its broadcast is such a step; a hand loses a card
\* only in lock_in, while its owner is unlocked, and the card lost is the one
\* recorded as the owner's pending play; and the pending play of a locked
\* player is never replaced by another card, only cleared.
C26_LockOnlyWhenAllowed ==
    [][\A c \in HumanIds :
          /\ (conn[c] \in {"joined", Rx["lock"]} /\ conn'[c] = "lock_bcast") =>
                /\ phase = "lock_in"
                /\ c \in Seated
                /\ ~locked[c]
                /\ pending_plays'[c] \in hand[c]
          /\ (c \in Seated /\ c \in Range(players') /\ hand'[c] # hand[c]
                 /\ hand'[c] \subseteq hand[c]) =>
                /\ phase = "lock_in"
                /\ ~locked[c]
                /\ hand[c] \ hand'[c] = {pending_plays'[c]}
          /\ (c \in Seated /\ locked[c] /\ pending_plays'[c] # pending_plays[c]) =>
                pending_plays'[c] = NoCard]_vars

\* in lock_in a locked human who still holds cards is back in receive_text,
\* where a second lock can arrive
C26_Witness ==
    /\ phase = "lock_in"
    /\ \E c \in HumanIds :
          /\ c \in Seated
          /\ locked[c]
          /\ conn[c] = "joined"
          /\ hand[c] # {}

\* C27: a step that changes the phase while it is not finished goes from
\* lobby to lock_in (with a human seated, through a start_game run that a
\* start of the host set off), from lock_in to reveal, from reveal to lock_in
\* or finished, or from lock_in or reveal to finished with no human left; in
\* particular no step takes the room from lobby to reveal or finished.
C27_PhaseChanges ==
    [][(phase # "finished" /\ phase' # phase) =>
          \/ /\ phase = "lobby"
             /\ phase' = "lock_in"
             /\ starting
             /\ \E p \in Range(players') : ~is_bot(p)
          \/ phase = "lock_in" /\ phase' = "reveal"
          \/ phase = "reveal" /\ phase' \in {"lock_in", "finished"}
          \/ /\ phase \in {"lock_in", "reveal"}
             /\ phase' = "finished"
             /\ human_players(players') = <<>>]_vars

\* C28: the step in which start_game deals puts the room into lock_in with
\* round 1, no round played, empty history, no pending play, no reveal and
\* aftershockNext false; the humans stay seated in their order and bots are
\* appended until the table holds targetSize players; every seated player
\* has score 0, streak 0, is unlocked and holds exactly floor(deck size /
\* seated players) cards, so the remainder of the deck is in no hand.
C28_StartDeals ==
    [][startSleep' < startSleep =>
          LET n == Len(players')
              each == Cardinality(Cards) \div n
          IN  /\ phase' = "lock_in"
              /\ round' = 1
              /\ rounds_played' = 0
              /\ history' = <<>>
              /\ last_reveal' = <<>>
              /\ \A p \in PIDs : pending_plays'[p] = NoCard
              /\ ~aftershock_next'
              /\ SubSeq(players', 1, Len(players)) = players
              /\ \A i \in (Len(players) + 1)..n : is_bot(players'[i])
              /\ n = Max({Len(players), target_size})
              /\ \A p \in Range(players') :
                    /\ score'[p] = 0
                    /\ win_streak'[p] = 0
                    /\ ~locked'[p]
                    /\ Cardinality(hand'[p]) = each
              /\ Cardinality(UNION {hand'[p] : p \in Range(players')}) = each * n]_vars

\* a game has just been dealt at a table of three: round 1, nobody locked,
\* one card each, and one card of the deck in no hand
C28_Witness ==
    /\ phase = "lock_in"
    /\ round = 1
    /\ rounds_played = 0
    /\ Len(players) = 3
    /\ \E p \in Seated : is_bot(p)
    /\ \A p \in Seated : ~locked[p] /\ Cardinality(hand[p]) = Cardinality(Cards) \div 3
    /\ CardsInHands # Cards

\* C29: while the phase is lobby no seated player is a bot and nobody holds
\* a card, also while start_game is in its sleep.
C29_NoBotsInLobby ==
    phase = "lobby" =>
        /\ \A p \in Seated : ~is_bot(p)
        /\ \A p \in PIDs : hand[p] = {}

\* the lobby during the start delay, at a table the seated humans do not fill
C29_Witness ==
    /\ phase = "lobby"
    /\ starting
    /\ startSleep > 0
    /\ Seated # {}
    /\ Len(players) < target_size

\* C30: the step in which a lock is accepted (the sender's handler goes on
\* to its broadcast) takes exactly one card out of the sender's hand, a card
\* that was in it, records that card as the sender's pending play and marks
\* the sender locked; the hand, lock flag and pending play of every other
\* player, all scores and streaks, the round, the rounds played, the seated
\* players and the phase are the same after the step as before.
C30_AcceptedLock ==
    [][\A c \in HumanIds :
          (conn[c] \in {"joined", Rx["lock"]} /\ conn'[c] = "lock_bcast") =>
              /\ pending_plays'[c] \in hand[c]
              /\ hand'[c] = hand[c] \ {pending_plays'[c]}
              /\ locked'[c]
              /\ \A p \in PIDs \ {c} :
                    /\ hand'[p] = hand[p]
                    /\ locked'[p] = locked[p]
                    /\ pending_plays'[p] = pending_plays[p]
              /\ score' = score
              /\ win_streak' = win_streak
              /\ round' = round
              /\ rounds_played' = rounds_played
              /\ players' = players
              /\ phase' = phase]_vars

\* a human has locked a card and is in the broadcast of that lock, while
\* another seated player is unlocked and holds a full hand
C30_Witness ==
    /\ phase = "lock_in"
    /\ \E c \in HumanIds :
          /\ conn[c] = "lock_bcast"
          /\ locked[c]
          /\ pending_plays[c] \in Cards
          /\ pending_plays[c] \notin hand[c]
          /\ \E p \in Seated \ {c} :
                /\ ~locked[p]
                /\ Cardinality(hand[p]) = Cardinality(hand[c]) + 1

\* C31: the step that completes a reveal clears the lock flag of every seated
\* player, every pending play, the reveal record and the pending award and
\* raises roundsPlayed by 1; if a seated player still holds a card, the round
\* number rises by 1, the phase becomes lock_in and every seated bot gets a
\* new delay task; otherwise the round number stays and the phase becomes
\* finished.
C31_RevealCompletes ==
    [][rounds_played' = rounds_played + 1 =>
          /\ \A p \in Seated : ~locked'[p]
          /\ \A p \in PIDs : pending_plays'[p] = NoCard
          /\ last_reveal' = <<>>
          /\ pending_award' = <<>>
          /\ IF \E p \in Seated : hand[p] # {}
             THEN /\ round' = round + 1
                  /\ phase' = "lock_in"
                  /\ \A b \in Seated : is_bot(b) => botSleep'[b] = botSleep[b] + 1
             ELSE /\ round' = round
                  /\ phase' = "finished"
                  /\ botSleep' = botSleep]_vars

\* round 2 has just begun after a completed reveal: nobody is locked, nothing
\* is pending, and a seated bot has its delay task
C31_Witness ==
    /\ phase = "lock_in"
    /\ round = 2
    /\ rounds_played = 1
    /\ last_reveal = <<>>
    /\ pending_award = <<>>
    /\ \A p \in Seated : ~locked[p] /\ hand[p] # {}
    /\ \A p \in PIDs : pending_plays[p] = NoCard
    /\ \E b \in Seated : is_bot(b) /\ botSleep[b] > 0

\* C32: when a delay task of a bot fires in lock_in while the bot is unlocked
\* and holds cards, exactly one card of the bot's hand leaves it, that card
\* becomes the bot's pending play and the bot is locked, and no other player,
\* score, streak, round or phase changes; when it fires outside lock_in or
\* while the bot is locked, no room or player field changes; and a locked
\* bot's hand and pending play are never touched by a further delay, so a bot
\* plays at most one card per round.
C32_BotLocksOnce ==
    [][\A b \in BotIds :
          /\ botSleep'[b] < botSleep[b] =>
                IF phase = "lock_in" /\ ~locked[b] /\ hand[b] # {}
                THEN /\ pending_plays'[b] \in hand[b]
                     /\ hand'[b] = hand[b] \ {pending_plays'[b]}
                     /\ locked'[b]
                     /\ \A p \in PIDs \ {b} :
                           /\ hand'[p] = hand[p]
                           /\ locked'[p] = locked[p]
                           /\ pending_plays'[p] = pending_plays[p]
                     /\ <<score, win_streak, round, rounds_played, phase, players>>'
                           = <<score, win_streak, round, rounds_played, phase, players>>
                ELSE <<roomVars, playerVars>>' = <<roomVars, playerVars>>
          /\ (b \in Seated /\ locked[b]) =>
                /\ hand'[b] = hand[b] \/ phase' # phase \/ round' # round
                /\ pending_plays'[b] \in {pending_plays[b], NoCard}]_vars

\* in lock_in a bot is locked, still holds cards, and another delay task of
\* it (the original or a sped-up one) has yet to fire
C32_Witness ==
    /\ phase = "lock_in"
    /\ \E b \in BotIds :
          /\ b \in Seated
          /\ locked[b]
          /\ pending_plays[b] \in Cards
          /\ hand[b] # {}
          /\ botSleep[b] > 0

\* C33: at most one timer_countdown task is alive at any time; a step that
\* enters lock_in leaves no timer handle, no deadline and no timer task
\* alive, so every timer that runs in a lock_in phase was created in it; and
\* a step of a timer task that is not the one the room's handle names changes
\* no hand, lock flag or pending play and neither the handle nor the deadline.
C33_TimerPerRound ==
    /\ [](Cardinality({t \in TimerIds : tpc[t] # "free"}) <= 1)
    /\ [][/\ (phase' = "lock_in" /\ phase # "lock_in") =>
                /\ timer_task' = 0
                /\ lock_deadline_ts' = 0
                /\ \A t \in TimerIds : tpc'[t] = "free"
          /\ \A t \in TimerIds :
                (tpc'[t] # tpc[t] /\ tpc[t] # "free" /\ timer_task # t) =>
                    <<hand, locked, pending_plays, timer_task, lock_deadline_ts>>'
                        = <<hand, locked, pending_plays, timer_task, lock_deadline_ts>>]_vars

\* round 2 of a game of two humans, who each locked in round 1 (the first
\* lock started that round's timer): the timer of round 2 is counting down
C33_Witness ==
    /\ phase = "lock_in"
    /\ round = 2
    /\ Cardinality({p \in Seated : ~is_bot(p)}) = 2
    /\ Len(history) = 1
    /\ timer_task # 0
    /\ tpc[timer_task] = "poll"
    /\ lock_deadline_ts = 1

\* C34: a send that fails during a broadcast puts only its own connection on
\* the dead list, and the loop goes on with the rest of the list; when the
\* broadcast returns, the dead connections are out of room.sockets and have no
\* entry in room.socket_to_player, every other connection of the list is
\* still in room.sockets and has been sent its own snapshot, once; and no
\* step of a broadcast changes a room or player field or a handler.
C34_SendFailure ==
    /\ [][(bcast # <<>> /\ bcast' # <<>> /\ bcast'[1].dead # bcast[1].dead) =>
             /\ bcast'[1].dead = Append(bcast[1].dead, Head(bcast[1].todo))
             /\ bcast'[1].todo = Tail(bcast[1].todo)
             /\ bcast'[1].sent = bcast[1].sent
             /\ sockets' = sockets]_vars
    /\ []((bcast # <<>> /\ bcast[1].pc = "returned") =>
             LET f == bcast[1]
             IN  /\ \A c \in Range(f.dead) :
                       c \notin sockets /\ socket_to_player(c) = 0
                 /\ \A c \in Range(f.list) \ Range(f.dead) :
                       /\ c \in sockets
                       /\ {s \in f.sent : s[1] = c} =
                             {<<c, broadcast_state(socket_to_player(c), hand, pending_plays)>>})
    /\ [][bcast' # bcast => UNCHANGED <<roomVars, playerVars, conn>>]_vars

\* a broadcast has returned whose first send failed, to a joined connection,
\* and whose later send reached another joined connection
C34_Witness ==
    /\ bcast # <<>>
    /\ bcast[1].pc = "returned"
    /\ bcast[1].dead = <<bcast[1].list[1]>>
    /\ conn[bcast[1].list[1]] = "joined"
    /\ \E s \in bcast[1].sent : s[1] # bcast[1].list[1] /\ s[2].you.id = s[1]

\* C35: for a bot about to choose among its n cards under the pressure p
\* that bot_choose computes for it, the index bot_pick_index gives is
\* round(p^1.2 * (n - 1)) clamped to 0..n-1, is a position of the hand, and
\* is not lower than the index any lower pressure gives.
C35_PickIndexRounds ==
    \A b \in Seated \cap BotIds :
        (phase = "lock_in" /\ ~locked[b] /\ hand[b] # {}) =>
            LET n == Cardinality(hand[b])
                leader == Max({score[q] : q \in Seated})
                p == IF is_joker_round(round)
                     THEN (IF leader - score[b] >= 1 THEN 10 ELSE 22)
                     ELSE BotPressure(leader - score[b], n)
                idx == bot_pick_index(n, p)
                \* round(x), x in millionths
                rounded == (SkewE6[p + 1] * (n - 1) + 500000) \div 1000000
            IN  /\ idx = Max({0, Min({n - 1, rounded})})
                /\ idx \in 0..(n - 1)
                /\ \A q \in 0..p : bot_pick_index(n, q) <= idx

\* what a seated player's deal has come to: rounds revealed, cards still in
\* hand, and the card locked for the round being played
DealtTo(p) ==
    rounds_played + Cardinality(hand[p]) + (IF locked[p] THEN 1 ELSE 0)

\* C36: the deal of start_game gives every seated player floor(deck / number
\* of players) cards with no round played and nobody locked; from then on, in
\* lock_in and reveal, rounds_played + cards in hand + (1 if locked) keeps
\* that value for every player who stays seated, so it is the same for all
\* seated players and is the deal size of some number of players not below
\* the number seated.  Hence a round starts with equal hands, no seated
\* player has an empty hand to lock from while another holds a card, and the
\* reveal that finishes the game leaves rounds_played at that value.
C36_DealAccounting ==
    /\ [](phase \in {"lock_in", "reveal"} =>
             /\ \A p, q \in Seated : DealtTo(p) = DealtTo(q)
             /\ \E n \in Cardinality(Seated)..Cardinality(PIDs) :
                   n >= 1 /\ \A p \in Seated : DealtTo(p) = Cardinality(Cards) \div n
             /\ phase = "lock_in" =>
                   \A p, q \in Seated :
                       (~locked[p] /\ hand[p] = {}) => hand[q] = {})
    /\ [][/\ startSleep' < startSleep /\ phase' = "lock_in" =>
                \A p \in Range(players') :
                    /\ DealtTo(p)' = Cardinality(Cards) \div Len(players')
                    /\ Cardinality(hand'[p]) = Cardinality(Cards) \div Len(players')
          /\ (phase \in {"lock_in", "reveal"} /\ phase' \in {"lock_in", "reveal"}) =>
                \A p \in Seated \cap Range(players') : DealtTo(p)' = DealtTo(p)
          /\ (round' # round /\ phase' = "lock_in") =>
                \A p, q \in Range(players') :
                    ~locked'[p] /\ Cardinality(hand'[p]) = Cardinality(hand'[q])
          /\ (rounds_played' > rounds_played /\ phase' = "finished") =>
                \A p \in Seated \cap Range(players') :
                    rounds_played' = DealtTo(p) /\ hand'[p] = {}]_vars

\* the reveal of the last round has just finished a game of two rounds that a
\* human and a bot played to the end
C36_Witness ==
    /\ phase = "finished"
    /\ rounds_played = Cardinality(Cards) \div 2
    /\ Cardinality(Seated) = 2
    /\ \A p \in Seated : hand[p] = {} /\ ~locked[p]
    /\ Len(history) = rounds_played

\* C37: however many start_game tasks the host's start commands create, at
\* most one is past the guards at a time, and `starting` is set exactly while
\* it sleeps; a start_game that runs while another is past the guards
\* returns without touching the room or a player; the deal (bot fill, reset,
\* hands) is made by a step from a room not yet dealt, so once per game; and
\* in lock_in `starting` is false again.
C37_StartsDealOnce ==
    /\ [](startSleep <= 1 /\ (starting <=> startSleep = 1))
    /\ [](phase = "lock_in" => ~starting /\ startSleep = 0)
    /\ [][/\ (startPending # <<>> /\ startPending' = Tail(startPending) /\ starting) =>
                UNCHANGED <<roomVars, playerVars, startSleep>>
          /\ startSleep' < startSleep =>
                /\ round = 0 /\ round' = 1
                /\ \A p \in Range(players) : hand[p] = {}
                /\ \A p \in Range(players) : ~is_bot(p)
                /\ phase' = "lock_in" /\ ~starting'
          /\ (\E p \in PIDs : hand'[p] # hand[p] /\ hand[p] = {}) =>
                startSleep' < startSleep
          /\ (\E p \in Range(players') \ Range(players) : is_bot(p)) =>
                startSleep' < startSleep]_vars

\* a start_game is in its sleep and a second start of the host has created
\* another
C37_Witness ==
    /\ phase = "lobby"
    /\ starting
    /\ startSleep = 1
    /\ startPending # <<>>
    /\ startPending[1] = host_id

\* C38: the table size is within 2..6 and the room never seats more players
\* than that; the deal of start_game leaves exactly target_size players
\* seated.
C38_TableBound ==
    /\ [](target_size \in 2..6 /\ Len(players) <= target_size)
    /\ [][startSleep' < startSleep => Len(players') = target_size]_vars

\* C39: in every reachable state at most one seated player has a win streak
\* above 0, and no win streak is below 0.
C39_OneStreak ==
    /\ Cardinality({p \in Seated : win_streak[p] > 0}) <= 1
    /\ \A p \in PIDs : win_streak[p] >= 0

\* two rounds have been won by two different players, both still seated: the
\* later winner has a streak of 1 and the earlier winner's streak is reset
C39_Witness ==
    /\ Len(history) = 2
    /\ history[1].winnerId \in Seated
    /\ history[2].winnerId \in Seated
    /\ history[1].winnerId # history[2].winnerId
    /\ win_streak[history[1].winnerId] = 1
    /\ win_streak[history[2].winnerId] = 0

\* C40: while the history is empty (in the lobby and when a game starts)
\* aftershock_next is false; once a round has been scored, aftershock_next is
\* true exactly when the latest history entry is an explosion: it is set by
\* every explosion and cleared by every round that is not one.
C40_AftershockTracksHistory ==
    /\ history = <<>> => ~aftershock_next
    /\ history # <<>> => (aftershock_next <=> history[1].explosion)

\* an explosion in round 1 set the aftershock and the round after it, which a
\* player won, cleared it
C40_Witness ==
    /\ Len(history) = 2
    /\ history[2].explosion
    /\ ~history[1].explosion
    /\ history[1].winnerId # 0
    /\ ~aftershock_next

====
